---- MODULE Spec2Model ----
(***************************************************************************)
(* Verification model of the WhatsApp conversational flow engine:          *)
(*   - src/lib/flow-executor.ts  executeFlow (the node interpreter)        *)
(*   - src/lib/meta.ts           session resolution, manual trigger and    *)
(*                               webhook callers, sendMessage with its     *)
(*                               allow-list recovery, broadcast status     *)
(*                               reconciliation                            *)
(*   - src/lib/flow-schema.ts    per-node-type data contracts              *)
(*                                                                         *)
(* Strings of the program are modelled as sequences of one-character       *)
(* strings, so that trim, lower-casing, whitespace replacement, splitting  *)
(* and substring tests are computed as the code computes them.             *)
(***************************************************************************)
EXTENDS Integers, Sequences, FiniteSets, TLC

(***************************************************************************)
(* Bounds of the model (not program constants).                            *)
(***************************************************************************)
\* number of inbound events (webhook messages / manual triggers) per behaviour
MaxInvocations == 2
\* nodes of the long chain flow beyond the executor's step limit
ChainExtra == 2
\* status callbacks one webhook request carries
MaxStatuses == 2
\* top-level sendMessage calls per behaviour of the send specification
MaxSendCalls == 2

\* requests each of the concurrent request handlers serves
MaxArrivals == 2
\* inbound messages routed one after another, and the flow edits between them
MaxMessages == 2
\* flows in a candidate list handed to findBestMatchingFlow
MaxCandidates == 3
\* change values of one webhook request, and messages of one change value
MaxChangeValues == 2
MaxValueMessages == 2

(***************************************************************************)
(* JavaScript null / undefined for string-valued slots.                    *)
(***************************************************************************)
Null == <<"<null>">>
Undef == <<"<undefined>">>
IsNullish(v) == v = Null \/ v = Undef
\* JavaScript truthiness of a string | null | undefined
Truthy(v) == ~IsNullish(v) /\ v # <<>>

(***************************************************************************)
(* String primitives.                                                      *)
(***************************************************************************)
IsSpace(c) == c = " "

UpperChars == {"A", "D", "E", "F", "H", "L", "N", "O", "P", "R", "S", "U", "W", "Y"}

LowerChar(c) ==
  CASE c = "A" -> "a" [] c = "D" -> "d" [] c = "E" -> "e" [] c = "H" -> "h"
    [] c = "L" -> "l" [] c = "N" -> "n" [] c = "O" -> "o" [] c = "S" -> "s"
    [] c = "U" -> "u" [] c = "Y" -> "y" [] c = "F" -> "f" [] c = "P" -> "p"
    [] c = "R" -> "r" [] c = "W" -> "w"
    [] OTHER -> c

UpperChar(c) ==
  IF \E u \in UpperChars : LowerChar(u) = c
  THEN CHOOSE u \in UpperChars : LowerChar(u) = c
  ELSE c

toLowerCase(s) == [i \in DOMAIN s |-> LowerChar(s[i])]

RECURSIVE trimStart(_)
trimStart(s) ==
  IF s = <<>> THEN <<>>
  ELSE IF IsSpace(Head(s)) THEN trimStart(Tail(s)) ELSE s

RECURSIVE trimEnd(_)
trimEnd(s) ==
  IF s = <<>> THEN <<>>
  ELSE IF IsSpace(s[Len(s)]) THEN trimEnd(SubSeq(s, 1, Len(s) - 1)) ELSE s

trim(s) == trimEnd(trimStart(s))

\* String.prototype.includes
includes(s, part) ==
  \E i \in 1..(Len(s) - Len(part) + 1) : SubSeq(s, i, i + Len(part) - 1) = part

\* s.replace(/\s+/g, "_"): every maximal run of whitespace becomes one "_"
RECURSIVE replaceSpaceRuns(_)
replaceSpaceRuns(s) ==
  IF s = <<>> THEN <<>>
  ELSE IF IsSpace(Head(s))
       THEN <<"_">> \o replaceSpaceRuns(trimStart(s))
       ELSE <<Head(s)>> \o replaceSpaceRuns(Tail(s))

\* s.split(/\s+/u) restricted to its non-empty parts, as a set
RECURSIVE splitParts(_, _)
splitParts(s, cur) ==
  IF s = <<>> THEN (IF cur = <<>> THEN {} ELSE {cur})
  ELSE IF IsSpace(Head(s))
       THEN (IF cur = <<>> THEN {} ELSE {cur}) \cup splitParts(Tail(s), <<>>)
       ELSE splitParts(Tail(s), Append(cur, Head(s)))

\* value.normalize("NFD").replace(<combining marks U+0300..U+036F>, "")
stripDiacriticsChar(c) ==
  CASE c = "á" -> "a" [] c = "ó" -> "o" [] OTHER -> c

stripDiacritics(s) == [i \in DOMAIN s |-> stripDiacriticsChar(s[i])]

\* flow-executor.ts normalizeTrigger
normalizeTrigger(value) ==
  IF ~Truthy(value) THEN Null
  ELSE IF trim(value) = <<>> THEN Null
  ELSE toLowerCase(stripDiacritics(trim(value)))

\* flow-executor.ts collectNormalizedParts
collectNormalizedParts(value) ==
  IF ~Truthy(value) THEN {} ELSE {value} \cup splitParts(value, <<>>)

DEFAULT_TRIGGER_KEYWORD == <<"d", "e", "f", "a", "u", "l", "t">>

\* executeFlow: toLc
toLc(s) == toLowerCase(trim(IF IsNullish(s) THEN <<>> ELSE s))

\* executeFlow: toLcUnderscore
toLcUnderscore(value) ==
  IF toLc(value) = <<>> THEN <<"o", "p", "t">>
  ELSE replaceSpaceRuns(toLc(value))

DigitChar(i) ==
  CASE i = 0 -> "0" [] i = 1 -> "1" [] i = 2 -> "2" [] i = 3 -> "3"
    [] i = 4 -> "4" [] i = 5 -> "5" [] i = 6 -> "6" [] i = 7 -> "7"
    [] i = 8 -> "8" [] OTHER -> "9"

\* the template literal `opt-${idx}` (idx < 10 in every modelled flow)
OptHandle(idx) == <<"o", "p", "t", "-", DigitChar(idx)>>

H_true == <<"t", "r", "u", "e">>
H_false == <<"f", "a", "l", "s", "e">>
H_noMatch == <<"n", "o", "-", "m", "a", "t", "c", "h">>

(***************************************************************************)
(* Flow definitions (already in the shape sanitizeFlowDefinition returns). *)
(* A node is [id, type, data]; an edge is [source, target, sourceHandle].  *)
(***************************************************************************)
None == "<none>"

S_hola == <<"h", "o", "l", "a">>
S_Hola == <<"H", "o", "l", "a">>
S_yes == <<"y", "e", "s">>
S_Yes == <<"Y", "e", "s">>
S_no == <<"n", "o">>
S_No == <<"N", "o">>
S_zzz == <<"z", "z", "z">>
S_pick == <<"P", "i", "c", "k">>
S_hi == <<"H", "i", " ", "{{lastUserMessage}}", "!">>
S_k == <<"k">>
S_v == <<"v">>

\* data: one record shape for all node types; an absent property is Undef
NoData ==
  [keyword |-> Undef, text |-> Undef, useTemplate |-> FALSE,
   templateName |-> Undef, templateLanguage |-> Undef, options |-> <<>>,
   seconds |-> 0, expression |-> Undef, assignTo |-> Undef, key |-> Undef,
   value |-> Undef, id |-> Undef, url |-> Undef, body |-> Undef,
   queue |-> Undef, note |-> Undef, targetNodeId |-> None, reason |-> Undef]

Node(id, type, data) == [id |-> id, type |-> type, data |-> data]
Edge(source, target, handle) ==
  [source |-> source, target |-> target, sourceHandle |-> handle]

TriggerNode(id, kw) == Node(id, "trigger", [NoData EXCEPT !.keyword = kw])
MessageNode(id, text) == Node(id, "message", [NoData EXCEPT !.text = text])
OptionsNode(id, text, opts) ==
  Node(id, "options", [NoData EXCEPT !.text = text, !.options = opts])
AssignNode(id, key, value) ==
  Node(id, "assign", [NoData EXCEPT !.key = key, !.value = value])
EndNode(id) == Node(id, "end", NoData)

FlowDef(nodes, edges) ==
  [nodes |-> nodes, edges |-> edges, metaFlowId |-> Null, metaFlowToken |-> Null]

\* scenario 1 of the spec: keyword trigger, one text, end
FlowLinear ==
  FlowDef(<<TriggerNode("t", S_hola), MessageNode("m1", S_hi), EndNode("e1")>>,
          <<Edge("t", "m1", Undef), Edge("m1", "e1", Undef)>>)

\* scenario 2 of the spec: options pause / resume
FlowMenu ==
  FlowDef(<<TriggerNode("t", DEFAULT_TRIGGER_KEYWORD),
            OptionsNode("o1", S_pick, <<S_Yes, S_No>>),
            MessageNode("mYes", S_yes), MessageNode("mNo", S_no),
            MessageNode("mHuh", S_zzz)>>,
          <<Edge("t", "o1", Undef), Edge("o1", "mYes", OptHandle(0)),
            Edge("o1", "mNo", OptHandle(1)), Edge("o1", "mHuh", H_noMatch)>>)

\* an edge cycle a1 -> m1 -> a1
FlowCycle ==
  FlowDef(<<TriggerNode("t", S_hola), AssignNode("a1", S_k, S_v),
            MessageNode("m1", S_pick)>>,
          <<Edge("t", "a1", Undef), Edge("a1", "m1", Undef),
            Edge("m1", "a1", Undef)>>)

\* a goto node that refers back to the trigger
FlowGoto ==
  FlowDef(<<TriggerNode("t", S_hola), MessageNode("m1", S_pick),
            Node("g1", "goto", [NoData EXCEPT !.targetNodeId = "t"])>>,
          <<Edge("t", "m1", Undef), Edge("m1", "g1", Undef)>>)

\* a message whose only outgoing edge targets a node that does not exist
FlowDangling ==
  FlowDef(<<TriggerNode("t", S_hola), MessageNode("m1", S_hi)>>,
          <<Edge("t", "m1", Undef), Edge("m1", "ghost", Undef)>>)

\* options whose opt-0 edge targets a node that does not exist, and without
\* a no-match edge
FlowMenuBroken ==
  FlowDef(<<TriggerNode("t", DEFAULT_TRIGGER_KEYWORD),
            OptionsNode("o1", S_pick, <<S_Yes, S_No>>),
            MessageNode("mNo", S_no)>>,
          <<Edge("t", "o1", Undef), Edge("o1", "ghost", OptHandle(0)),
            Edge("o1", "mNo", OptHandle(1))>>)

\* nodes whose data violates the data contract of their type
FlowInvalid ==
  FlowDef(<<TriggerNode("t", S_hola), AssignNode("a1", Undef, S_v),
            MessageNode("m1", S_pick), OptionsNode("o1", S_pick, <<S_Yes>>),
            TriggerNode("t2", S_yes), MessageNode("m0", <<" ">>),
            MessageNode("m2", S_no)>>,
          <<Edge("t", "a1", Undef), Edge("a1", "m1", Undef),
            Edge("m1", "o1", Undef), Edge("t2", "m0", Undef),
            Edge("m0", "m2", Undef)>>)

\* condition, api, media, whatsapp_flow, delay, template and handoff nodes
FlowBranch ==
  [metaFlowId |-> <<"1">>, metaFlowToken |-> <<"x">>] @@
  FlowDef(<<TriggerNode("t", S_hola),
            Node("c1", "condition",
                 [NoData EXCEPT !.expression = <<"context.messageCount", ">", "1">>]),
            Node("api1", "api", [NoData EXCEPT !.url = <<"u">>]),
            Node("h1", "handoff", [NoData EXCEPT !.queue = <<"q">>]),
            Node("d1", "delay", [NoData EXCEPT !.seconds = 1]),
            Node("md", "media", [NoData EXCEPT !.url = <<"u">>]),
            Node("wf", "whatsapp_flow", [NoData EXCEPT !.body = <<"b">>]),
            Node("tp", "message",
                 [NoData EXCEPT !.useTemplate = TRUE, !.templateName = <<"n">>,
                                !.templateLanguage = <<"e", "s">>]),
            TriggerNode("t3", S_yes)>>,
          <<Edge("t", "c1", Undef), Edge("t3", "api1", Undef), Edge("c1", "api1", H_true),
            Edge("c1", "d1", H_false), Edge("api1", "h1", Undef),
            Edge("h1", "tp", Undef), Edge("d1", "md", Undef),
            Edge("md", "wf", Undef), Edge("wf", "tp", Undef)>>)

\* several triggers: the default one first, then keyword triggers, two of
\* which normalize to the same keyword; behind the default trigger a media
\* node that has neither id nor url
FlowGreeting ==
  FlowDef(<<TriggerNode("t0", DEFAULT_TRIGGER_KEYWORD),
            TriggerNode("t1", S_yes),
            TriggerNode("t2", <<" ">> \o S_Hola),
            TriggerNode("t3", S_hola),
            MessageNode("m0", S_pick), MessageNode("m1", S_pick),
            MessageNode("m2", S_pick), EndNode("e1"),
            Node("mx", "media", NoData)>>,
          <<Edge("t0", "m0", Undef), Edge("t1", "m1", Undef),
            Edge("t2", "m2", Undef), Edge("t3", "m1", Undef),
            Edge("m0", "mx", Undef), Edge("mx", "e1", Undef),
            Edge("m1", "e1", Undef), Edge("m2", "e1", Undef)>>)

\* the tokens safeEvalBool rejects, in a fixed order
BlockedTokenList ==
  <<";", "{", "}", "process", "global", "window", "document", "require",
    "import", "eval">>

\* condition nodes with an edge for one result only, listed before an edge
\* without handle, and a message without outgoing edge
FlowOneSided ==
  FlowDef(<<TriggerNode("tA", S_hola),
            Node("cF", "condition", [NoData EXCEPT !.expression = <<"false">>]),
            TriggerNode("tB", S_yes),
            Node("cT", "condition", [NoData EXCEPT !.expression = <<"true">>]),
            TriggerNode("tD", DEFAULT_TRIGGER_KEYWORD),
            MessageNode("mA", S_pick),
            MessageNode("mB", S_hi)>>,
          <<Edge("tA", "cF", Undef), Edge("cF", "mA", H_true),
            Edge("cF", "mA", Undef),
            Edge("tB", "cT", Undef), Edge("cT", "mA", Undef),
            Edge("cT", "mA", H_false),
            Edge("tD", "mB", Undef), Edge("mA", "mB", Undef)>>)

GuardId(i) == "g" \o ToString(i)

\* a chain of condition nodes, one per rejected token: g1 -false-> g2 ... ->
\* e1, each with a "true" edge (listed first) to the message mT; every
\* expression would be true if the token were let through
FlowGuarded ==
  FlowDef(<<TriggerNode("t", DEFAULT_TRIGGER_KEYWORD)>>
            \o [i \in 1..Len(BlockedTokenList) |->
                  Node(GuardId(i), "condition",
                       [NoData EXCEPT !.expression =
                                        <<"true", "||", BlockedTokenList[i]>>])]
            \o <<MessageNode("mT", S_pick), EndNode("e1")>>,
          <<Edge("t", GuardId(1), Undef)>>
            \o [i \in 1..(2 * Len(BlockedTokenList)) |->
                  IF i % 2 = 1
                  THEN Edge(GuardId((i + 1) \div 2), "mT", H_true)
                  ELSE Edge(GuardId(i \div 2),
                            IF i \div 2 = Len(BlockedTokenList) THEN "e1"
                            ELSE GuardId(i \div 2 + 1),
                            H_false)]
            \o <<Edge("mT", "e1", Undef)>>)

\* the step limit of executeFlow
SAFE_MAX_STEPS == 500

\* a chain t -> c1 -> c2 -> ... longer than the step limit
ChainLen == SAFE_MAX_STEPS + ChainExtra
ChainId(i) == IF i = 0 THEN "t" ELSE "c" \o ToString(i)
FlowChain ==
  FlowDef([i \in 1..(ChainLen + 1) |->
             IF i = 1 THEN TriggerNode("t", S_hola)
             ELSE AssignNode(ChainId(i - 1), S_k, S_v)],
          [i \in 1..ChainLen |-> Edge(ChainId(i - 1), ChainId(i), Undef)])

FlowIds ==
  {"linear", "menu", "cycle", "goto", "menuBroken", "invalid", "branch", "chain",
   "dangling"}

FlowOf(f) ==
  CASE f = "linear" -> FlowLinear
    [] f = "menu" -> FlowMenu
    [] f = "cycle" -> FlowCycle
    [] f = "goto" -> FlowGoto
    [] f = "dangling" -> FlowDangling
    [] f = "menuBroken" -> FlowMenuBroken
    [] f = "invalid" -> FlowInvalid
    [] f = "greeting" -> FlowGreeting
    [] f = "guarded" -> FlowGuarded
    [] f = "oneSided" -> FlowOneSided
    [] f = "branch" -> FlowBranch
    [] OTHER -> FlowChain

(***************************************************************************)
(* Graph indices of executeFlow (nodeById, outgoingBySource).              *)
(***************************************************************************)
HasNode(f, id) == \E i \in DOMAIN f.nodes : f.nodes[i].id = id

\* new Map(nodes.map(n => [n.id, n])): the last node with that id wins
nodeById(f, id) ==
  f.nodes[CHOOSE i \in DOMAIN f.nodes :
            /\ f.nodes[i].id = id
            /\ \A j \in DOMAIN f.nodes : f.nodes[j].id = id => j <= i]

NodeType(f, id) == IF HasNode(f, id) THEN nodeById(f, id).type ELSE None

\* target of the first edge of the source that satisfies P, else None
FirstEdgeTarget(f, sourceId, P(_)) ==
  LET Match(i) == f.edges[i].source = sourceId /\ P(f.edges[i])
  IN IF \E i \in DOMAIN f.edges : Match(i)
     THEN f.edges[CHOOSE i \in DOMAIN f.edges :
                    Match(i) /\ \A j \in 1..(i - 1) : ~Match(j)].target
     ELSE None

chooseFirstEdge(f, sourceId) == FirstEdgeTarget(f, sourceId, LAMBDA e : TRUE)

edgeForCondition(f, sourceId, res) ==
  FirstEdgeTarget(f, sourceId,
                  LAMBDA e : e.sourceHandle = (IF res THEN H_true ELSE H_false))

edgeForOption(f, sourceId, handleId) ==
  FirstEdgeTarget(f, sourceId, LAMBDA e : e.sourceHandle = handleId)

\* Array.prototype.findIndex over a sequence (0-based result, -1 when absent)
findIndex(seq, P(_, _)) ==
  IF \E i \in DOMAIN seq : P(seq[i], i - 1)
  THEN (CHOOSE i \in DOMAIN seq :
          P(seq[i], i - 1) /\ \A j \in 1..(i - 1) : ~P(seq[j], j - 1)) - 1
  ELSE -1

(***************************************************************************)
(* The session context (FlowRuntimeContext).  The stored null context and  *)
(* the empty object are both EmptyContext; timestamps are left out.        *)
(***************************************************************************)
HISTORY_LIMIT == 50
IndexUndefined == -1
IndexNull == -2

EmptyContext ==
  [history |-> <<>>, inputHistory |-> <<>>, messageCount |-> 0,
   triggerMessage |-> Undef, lastUserMessage |-> Undef,
   lastUserMessageNormalized |-> Undef, lastInboundType |-> "undefined",
   lastInteractiveId |-> Undef, lastSelectedOptionIndex |-> IndexUndefined,
   lastSelectedOption |-> Undef, lastOptionMatched |-> "undefined",
   lastBotMessage |-> Undef, lastBotMessageType |-> "undefined",
   lastBotOptions |-> <<>>, handoffQueue |-> Undef, endReason |-> Undef,
   vars |-> <<>>]

\* push with the cap of HISTORY_LIMIT entries, dropping the oldest
capPush(list, entry) ==
  LET a == Append(list, entry)
  IN IF Len(a) > HISTORY_LIMIT
     THEN SubSeq(a, Len(a) - HISTORY_LIMIT + 1, Len(a))
     ELSE a

pushHistory(c, entry) == [c EXCEPT !.history = capPush(c.history, entry)]

recordInbound(c, payload) ==
  LET c1 == pushHistory(c, [direction |-> "in", type |-> payload.type,
                            text |-> payload.text])
  IN [c1 EXCEPT
        !.lastUserMessage = payload.text,
        !.lastUserMessageNormalized = toLc(trim(payload.text)),
        !.lastInboundType = payload.type,
        !.lastInteractiveId = payload.interactiveId,
        !.lastSelectedOptionIndex =
            IF payload.optionIndex # IndexUndefined THEN payload.optionIndex
            ELSE IF payload.matchedOption = Null THEN IndexNull
            ELSE c.lastSelectedOptionIndex,
        !.lastSelectedOption =
            IF payload.matchedOption # Undef THEN payload.matchedOption
            ELSE c.lastSelectedOption,
        !.lastOptionMatched =
            IF payload.matchedOption # Undef
            THEN (IF payload.matchedOption # Null THEN "true" ELSE "false")
            ELSE c.lastOptionMatched,
        !.inputHistory = capPush(c.inputHistory, payload.text),
        !.messageCount = c.messageCount + 1]

\* faulty variant: the send is not entered in the history
recordOutboundUnlogged(c, type, text, options) ==
  [c EXCEPT
     !.lastBotMessage = IF text # Undef THEN text ELSE c.lastBotMessage,
     !.lastBotOptions = IF type = "options" THEN options ELSE c.lastBotOptions,
     !.lastBotMessageType = type]

recordOutbound(c, type, text, options) ==
  LET c1 == pushHistory(c, [direction |-> "out", type |-> type, text |-> text])
  IN [c1 EXCEPT
        !.lastBotMessage = IF text # Undef THEN text ELSE c.lastBotMessage,
        !.lastBotOptions = IF type = "options" THEN options ELSE c.lastBotOptions,
        !.lastBotMessageType = type]

\* setByPath for a one-segment path
setByPath(c, key, val) ==
  [c EXCEPT !.vars = [k \in (DOMAIN c.vars) \cup {key} |->
                        IF k = key THEN val ELSE c.vars[k]]]

\* tpl: a "{{path}}" occurrence is one element of the modelled string; it is
\* replaced by the context value at the path, or by "" when there is none
RECURSIVE tpl(_, _)
tpl(s, c) ==
  IF IsNullish(s) \/ s = <<>> THEN <<>>
  ELSE (CASE Head(s) = "{{lastUserMessage}}" ->
               (IF IsNullish(c.lastUserMessage) THEN <<>> ELSE c.lastUserMessage)
          [] Head(s) = "{{missing}}" -> <<>>
          [] OTHER -> <<Head(s)>>) \o tpl(Tail(s), c)

\* safeEvalBool; an expression is its sequence of tokens
BlockedTokens ==
  {";", "{", "}", "process", "global", "window", "document", "require",
   "import", "eval"}

\* what `new Function` computes for the expressions of the modelled flows;
\* "threw" stands for an evaluation error
evalBool(expr, c) ==
  IF expr = <<"true">> THEN "true"
  ELSE IF Len(expr) = 3 /\ expr[1] = "true" /\ expr[2] = "||" THEN "true"
  ELSE IF expr = <<"false">> THEN "false"
  ELSE IF expr = <<"context.messageCount", ">", "1">>
       THEN (IF c.messageCount > 1 THEN "true" ELSE "false")
  ELSE "threw"

\* faulty variant: no token is rejected
safeEvalBoolUnchecked(expr, c) == evalBool(expr, c)

\* "threw" stands for the exception (unsafe expression or evaluation error)
safeEvalBool(expr, c) ==
  IF \E i \in DOMAIN expr : expr[i] \in BlockedTokens THEN "threw"
  ELSE evalBool(expr, c)

(***************************************************************************)
(* sendMessage as the executor sees it: the set of results one call can    *)
(* return, over every answer of the Meta API.  status 0 is "no status".     *)
(***************************************************************************)
NoStatus == 0
RECIPIENT_NOT_ALLOWED_ERROR_CODE == 131030

OkResult == [success |-> TRUE, status |-> NoStatus]
Fail(status) == [success |-> FALSE, status |-> status]

\* non-2xx answers of POST /messages: [status, code]
MetaErrorResponses ==
  {[status |-> 400, code |-> RECIPIENT_NOT_ALLOWED_ERROR_CODE],
   [status |-> 400, code |-> 100], [status |-> 401, code |-> 190],
   [status |-> 500, code |-> NoStatus]}

\* results of addRecipientToAllowList
AllowListResults ==
  {[success |-> TRUE, status |-> NoStatus], [success |-> FALSE, status |-> 400],
   [success |-> FALSE, status |-> 404], [success |-> FALSE, status |-> NoStatus]}

\* the early returns of the body construction switch
BodyBuildable(msg) ==
  CASE msg.type = "media" -> Truthy(msg.id) \/ Truthy(msg.url)
    [] msg.type = "flow" -> trim(msg.flowId) # <<>> /\ trim(msg.flowToken) # <<>>
    [] msg.type = "template" ->
         /\ ~IsNullish(msg.templateName) /\ trim(msg.templateName) # <<>>
         /\ ~IsNullish(msg.templateLanguage) /\ trim(msg.templateLanguage) # <<>>
    [] OTHER -> TRUE

RECURSIVE sendMessageOutcomes(_, _)
sendMessageOutcomes(msg, allowListAttempted) ==
  \* the user row has no access token or phone number id
  {Fail(NoStatus)} \cup
  (IF ~BodyBuildable(msg) THEN {Fail(400)}
   ELSE {OkResult}
        \cup {Fail(NoStatus)}     \* fetch threw or timed out
        \cup UNION {
               IF /\ r.status = 400
                  /\ r.code = RECIPIENT_NOT_ALLOWED_ERROR_CODE
                  /\ ~allowListAttempted
               THEN UNION {
                      IF a.success THEN sendMessageOutcomes(msg, TRUE)
                      ELSE {Fail(IF a.status = NoStatus THEN r.status
                                 ELSE a.status)} : a \in AllowListResults}
               ELSE {Fail(r.status)} : r \in MetaErrorResponses})

SendMsg(type) ==
  [type |-> type, id |-> Undef, url |-> Undef, flowId |-> <<>>,
   flowToken |-> <<>>, templateName |-> Undef, templateLanguage |-> Undef]

(***************************************************************************)
(* Data contracts of flow-schema.ts (the Zod schemas of the node types).   *)
(***************************************************************************)
waTextLimit == 4096

StrBetween(v, lo, hi) == ~IsNullish(v) /\ Len(v) >= lo /\ Len(v) <= hi

MessageDataSchema(d) ==
  /\ IsNullish(d.text) \/ Len(d.text) <= waTextLimit
  /\ IF d.useTemplate
     THEN /\ ~IsNullish(d.templateName) /\ trim(d.templateName) # <<>>
          /\ ~IsNullish(d.templateLanguage) /\ trim(d.templateLanguage) # <<>>
     ELSE ~IsNullish(d.text) /\ trim(d.text) # <<>>

OptionsDataSchema(d) ==
  /\ Len(d.options) >= 2 /\ Len(d.options) <= 10
  /\ \A i \in DOMAIN d.options : StrBetween(d.options[i], 1, 30)

AssignVarDataSchema(d) == StrBetween(d.key, 1, 50) /\ StrBetween(d.value, 0, 500)

MediaDataSchema(d) == ~IsNullish(d.url) \/ StrBetween(d.id, 1, 4096)

\* the contract of a node's type applied to its data
ValidNodeData(n) ==
  CASE n.type = "trigger" -> StrBetween(n.data.keyword, 1, 64)
    [] n.type = "message" -> MessageDataSchema(n.data)
    [] n.type = "options" -> OptionsDataSchema(n.data)
    [] n.type = "delay" -> n.data.seconds >= 1 /\ n.data.seconds <= 3600
    [] n.type = "condition" -> StrBetween(n.data.expression, 1, 500)
    [] n.type = "api" -> ~IsNullish(n.data.url)
    [] n.type = "assign" -> AssignVarDataSchema(n.data)
    [] n.type = "media" -> MediaDataSchema(n.data)
    [] n.type = "whatsapp_flow" -> StrBetween(n.data.body, 1, 1024)
    [] n.type = "handoff" -> StrBetween(n.data.queue, 1, 4096)
    [] n.type = "goto" -> n.data.targetNodeId # None
    [] OTHER -> TRUE

(***************************************************************************)
(* State.                                                                  *)
(***************************************************************************)
VARIABLES
  \* --- the store ---
  flowId,        \* the tenant's Active WhatsApp flow
  session,       \* the Session row of (contact, flow)
  logs,          \* the Log rows, in creation order
  \* --- one inbound event being handled (caller + executeFlow locals) ---
  pc,            \* position: idle, start, loop, node, sent, advance, catch,
                 \*           returned, threw
  caller,        \* "webhook" (handleIncomingWhatsappMessage) or "manual"
  inbound,       \* inboundPayload
  snap,          \* the session object handed to executeFlow
  ctx,           \* the in-memory context
  cur,           \* currentNode (its id) or None
  nextNodeId,    \* nextNodeId of the running iteration
  visited,       \* the visited set
  steps,         \* the step counter
  sendResult,    \* result of the send of the running node
  err,           \* the exception in flight (its status)
  exit,          \* which return / throw ended executeFlow
  resumeHandle,  \* sourceHandle looked up when resuming from options
  result,        \* last ManualFlowTriggerResult
  invocations,   \* inbound events handled so far
  \* --- the outside world's record of one invocation ---
  executed,      \* node ids whose switch case ran, in order
  outbox         \* sendMessage calls made by nodes, in order

flowVars ==
  <<flowId, session, logs, pc, caller, inbound, snap, ctx, cur, nextNodeId,
    visited, steps, sendResult, err, exit, resumeHandle, result, invocations,
    executed, outbox>>

\* broadcast reconciliation (processBroadcastStatuses)
VARIABLES
  recipients,   \* BroadcastRecipient.status by recipient id
  broadcast,    \* the Broadcast row: totalRecipients, successCount, failureCount
  req           \* per webhook request: position in processBroadcastStatuses

bcastVars == <<recipients, broadcast, req>>

\* one sendMessage call taken step by step
VARIABLES
  sm,          \* the running sendMessage call: position, message, options
  posts,       \* POSTs to /messages made for the running top-level call
  enrolls,     \* addRecipientToAllowList invocations for that call
  enrollPosts, \* paths POSTed by the running enrollment, in order
  smResult,    \* the SendMessageResult returned
  sendCalls    \* top-level calls finished

sendVars == <<sm, posts, enrolls, enrollPosts, smResult, sendCalls>>

\* concurrent requests resolving the contact and the session of one
\* (userId, phone) and one flow, against the rows of the store
VARIABLES
  contacts,    \* Contact rows of the (userId, phone) pair, in insertion order
  sessions,    \* Session rows of the (contact, flow) pair, in insertion order
  proc         \* per request: position, the contact and session it holds

raceVars == <<contacts, sessions, proc>>

\* one tenant's flows and one contact's sessions, as the webhook handler
\* routes an inbound message to a flow
VARIABLES
  tenantFlows,      \* Flow rows of the user: [id, trigger, updatedAt, status, channel]
  contactSessions,  \* Session rows of the contact: [flow, status, updatedAt]
  matchContext,     \* the message being routed: [fullText, interactiveTitle, interactiveId]
  route             \* the handler's position and what it has chosen

routeVars == <<tenantFlows, contactSessions, matchContext, route>>

\* one POST /meta/webhook request
VARIABLES
  changeValues,  \* the change values of the request, in order
  hook       \* the request's position, what it has handled, its response

hookVars == <<changeValues, hook>>

\* one GET /meta/webhook request of a process started with some environment
VARIABLES
  env,           \* the three environment variables the verify token is read from
  verification   \* the last verification request: its query and its response

verifyVars == <<env, verification>>

\* one flow definition taken through sanitizeFlowDefinition twice
VARIABLES
  sanitizing   \* the input, the sanitized definition and its re-sanitization

schemaVars == <<sanitizing>>

\* one options node: its buttons as sent, the button tapped, the resumption
VARIABLES
  buttons   \* the options, the emitted button ids, the reply and the selection

replyVars == <<buttons>>

\* two executeFlow invocations given the same session row
VARIABLES
  stored,   \* the session row as the database holds it
  walk      \* per invocation: its position, the session object it was given,
            \* the inbound payload, its current node, its visited set

overlapVars == <<stored, walk>>

\* what the actions of one part of the model leave alone
notFlowVars == <<bcastVars, sendVars, raceVars, routeVars, hookVars, verifyVars, schemaVars,
   replyVars, overlapVars>>
notBcastVars == <<flowVars, sendVars, raceVars, routeVars, hookVars, verifyVars, schemaVars,
   replyVars, overlapVars>>
notSendVars == <<flowVars, bcastVars, raceVars, routeVars, hookVars, verifyVars, schemaVars,
   replyVars, overlapVars>>
notRaceVars == <<flowVars, bcastVars, sendVars, routeVars, hookVars, verifyVars, schemaVars,
   replyVars, overlapVars>>
notRouteVars == <<flowVars, bcastVars, sendVars, raceVars, hookVars, verifyVars, schemaVars,
   replyVars, overlapVars>>
notHookVars == <<flowVars, bcastVars, sendVars, raceVars, routeVars, verifyVars, schemaVars,
   replyVars, overlapVars>>
notVerifyVars == <<flowVars, bcastVars, sendVars, raceVars, routeVars, hookVars, schemaVars,
   replyVars, overlapVars>>
notSchemaVars ==
  <<flowVars, bcastVars, sendVars, raceVars, routeVars, hookVars, verifyVars,
    replyVars, overlapVars>>
notReplyVars ==
  <<flowVars, bcastVars, sendVars, raceVars, routeVars, hookVars, verifyVars,
    schemaVars, overlapVars>>
notOverlapVars ==
  <<flowVars, bcastVars, sendVars, raceVars, routeVars, hookVars, verifyVars,
    schemaVars, replyVars>>

Flow == FlowOf(flowId)

\* a null currentNodeId
NullNode == "<null>"

NoSession ==
  [exists |-> FALSE, status |-> None, currentNodeId |-> NullNode,
   context |-> EmptyContext]

NoResult == [success |-> FALSE, status |-> NoStatus, set |-> FALSE]
NoInbound ==
  [text |-> <<>>, type |-> "text", interactiveId |-> Null,
   optionIndex |-> IndexUndefined, matchedOption |-> Undef]

\* inbound events: the text handed to executeFlow and the interactive reply id
Inputs ==
  {[text |-> S_Hola, interactiveId |-> Null],
   [text |-> S_Yes, interactiveId |-> Null],
   [text |-> S_zzz, interactiveId |-> Null],
   [text |-> S_No, interactiveId |-> S_no],
   [text |-> S_zzz, interactiveId |-> OptHandle(1)]}

Callers == {"webhook", "manual"}

InitFlowOver(flows) ==
  /\ flowId \in flows
  /\ session = NoSession
  /\ logs = <<>>
  /\ pc = "idle"
  /\ caller = "webhook"
  /\ inbound = NoInbound
  /\ snap = [status |-> None, currentNodeId |-> NullNode]
  /\ ctx = EmptyContext
  /\ cur = None
  /\ nextNodeId = None
  /\ visited = {}
  /\ steps = 0
  /\ sendResult = OkResult
  /\ err = NoStatus
  /\ exit = None
  /\ resumeHandle = Null
  /\ result = NoResult
  /\ invocations = 0
  /\ executed = <<>>
  /\ outbox = <<>>

InitFlow == InitFlowOver(FlowIds)

(***************************************************************************)
(* updateSession: a patch leaves the fields it does not name untouched.    *)
(***************************************************************************)
Keep == "<keep>"

\* faulty variant: a patch that names a status also clears currentNodeId
updateSessionClearingNode(s, status, currentNodeId, context) ==
  [s EXCEPT !.status = IF status = Keep THEN @ ELSE status,
            !.currentNodeId = IF status # Keep THEN NullNode
                              ELSE IF currentNodeId = Keep THEN @
                              ELSE currentNodeId,
            !.context = context]

updateSession(s, status, currentNodeId, context) ==
  [s EXCEPT !.status = IF status = Keep THEN @ ELSE status,
            !.currentNodeId = IF currentNodeId = Keep THEN @ ELSE currentNodeId,
            !.context = context]

\* faulty variant: every existing session that is not Active is reset
ensureActiveSessionResettingPaused(s) ==
  IF ~s.exists
  THEN [exists |-> TRUE, status |-> "Active", currentNodeId |-> NullNode,
        context |-> EmptyContext]
  ELSE IF s.status # "Active"
  THEN [s EXCEPT !.status = "Active", !.currentNodeId = NullNode,
                 !.context = EmptyContext]
  ELSE s

\* ensureActiveSessionForFlow
ensureActiveSessionForFlow(s) ==
  IF ~s.exists
  THEN [exists |-> TRUE, status |-> "Active", currentNodeId |-> NullNode,
        context |-> EmptyContext]
  ELSE IF s.status \in {"Completed", "Errored"}
  THEN [s EXCEPT !.status = "Active", !.currentNodeId = NullNode,
                 !.context = EmptyContext]
  ELSE s

(***************************************************************************)
(* An inbound event arrives: the caller resolves the session and calls     *)
(* executeFlow (handleIncomingWhatsappMessage / processManualFlowTrigger   *)
(* up to the executeFlow call, for the tenant's single Active flow).       *)
(***************************************************************************)
\* the `variables` of a manual trigger, restricted to the two history
\* fields; set is whether the request carries any
NoVariables == [set |-> FALSE, history |-> <<>>, inputHistory |-> <<>>]

\* processManualFlowTrigger: {...currentContext, ...variables}
mergeVariables(c, variables) ==
  IF variables.set
  THEN [c EXCEPT !.history = variables.history,
                 !.inputHistory = variables.inputHistory]
  ELSE c

BeginWith(c, input, variables) ==
  /\ pc = "idle"
  /\ LET s0 == ensureActiveSessionForFlow(session)
         s1 == [s0 EXCEPT !.context = mergeVariables(s0.context, variables)]
     IN /\ session' = s1
        /\ snap' = [status |-> s1.status, currentNodeId |-> s1.currentNodeId]
        /\ ctx' = s1.context
  /\ caller' = c
  /\ inbound' = [text |-> input.text,
                 type |-> IF input.interactiveId # Null THEN "interactive"
                          ELSE "text",
                 interactiveId |-> input.interactiveId,
                 optionIndex |-> IndexUndefined, matchedOption |-> Undef]
  /\ pc' = "start"
  /\ cur' = None
  /\ nextNodeId' = None
  /\ visited' = {}
  /\ steps' = 0
  /\ sendResult' = OkResult
  /\ err' = NoStatus
  /\ exit' = None
  /\ resumeHandle' = Null
  /\ result' = NoResult
  /\ executed' = <<>>
  /\ outbox' = <<>>
  /\ UNCHANGED <<flowId, logs, invocations>>
  /\ UNCHANGED notFlowVars

BeginCall(c, input) == BeginWith(c, input, NoVariables)

\* the number of inbound events of a behaviour is bounded
Begin(c, input) == invocations < MaxInvocations /\ BeginCall(c, input)

(***************************************************************************)
(* executeFlow, "Find starting node" up to the entry of the main loop.     *)
(***************************************************************************)
\* does the trigger node's keyword match the inbound text
triggerMatches(n, text) ==
  LET normalizedInput == normalizeTrigger(text)
      inputTokens == collectNormalizedParts(normalizedInput)
      normalizedKeyword == normalizeTrigger(n.data.keyword)
  IN /\ n.type = "trigger"
     /\ normalizedKeyword # Null
     /\ normalizedKeyword # DEFAULT_TRIGGER_KEYWORD
     /\ \/ /\ Truthy(normalizedInput)
           /\ \/ normalizedInput = normalizedKeyword
              \/ includes(normalizedInput, normalizedKeyword)
        \/ normalizedKeyword \in inputTokens

triggerIsDefault(n) ==
  n.type = "trigger" /\ normalizeTrigger(n.data.keyword) = DEFAULT_TRIGGER_KEYWORD

\* faulty variant: without a match and without a default trigger the walk
\* starts at the first trigger node
selectTriggerFallingBack(f, text) ==
  LET m == findIndex(f.nodes, LAMBDA n, i : triggerMatches(n, text))
      d == findIndex(f.nodes, LAMBDA n, i : triggerIsDefault(n))
      a == findIndex(f.nodes, LAMBDA n, i : n.type = "trigger")
  IN IF m # -1 THEN f.nodes[m + 1].id
     ELSE IF d # -1 THEN f.nodes[d + 1].id
     ELSE IF a # -1 THEN f.nodes[a + 1].id
     ELSE None

\* faulty variant: the first trigger node that matches or is the default one
selectTriggerInOrder(f, text) ==
  LET m == findIndex(f.nodes, LAMBDA n, i :
                       triggerMatches(n, text) \/ triggerIsDefault(n))
  IN IF m # -1 THEN f.nodes[m + 1].id ELSE None

\* the trigger node a new walk starts at (its id), or None
selectTrigger(f, text) ==
  LET m == findIndex(f.nodes, LAMBDA n, i : triggerMatches(n, text))
      d == findIndex(f.nodes, LAMBDA n, i : triggerIsDefault(n))
  IN IF m # -1 THEN f.nodes[m + 1].id
     ELSE IF d # -1 THEN f.nodes[d + 1].id
     ELSE None

\* index of the option the inbound selects at a paused options node, or -1
selectedOption(options, payload) ==
  LET interactiveId == IF Truthy(payload.interactiveId)
                       THEN toLc(payload.interactiveId) ELSE Null
      byId == IF Truthy(interactiveId)
              THEN findIndex(options,
                             LAMBDA opt, i : \/ interactiveId = toLcUnderscore(opt)
                                             \/ interactiveId = OptHandle(i))
              ELSE -1
  IN IF byId # -1 THEN byId
     ELSE findIndex(options, LAMBDA opt, i : toLc(opt) = toLc(payload.text))

optionHandle(idx) == IF idx # -1 THEN OptHandle(idx) ELSE H_noMatch

\* what the start-node resolution leaves behind
startOutcome ==
  LET base == [session |-> session, pc |-> "loop", inbound |-> inbound,
               ctx |-> ctx, cur |-> None, exit |-> None, resumeHandle |-> Null]
      errored == updateSession(session, "Errored", Keep, ctx)
  IN IF snap.currentNodeId # NullNode /\ snap.status = "Paused"
     THEN IF ~HasNode(Flow, snap.currentNodeId)
          THEN [base EXCEPT !.session = errored, !.pc = "returned",
                            !.exit = "pausedMissing"]
          ELSE LET paused == nodeById(Flow, snap.currentNodeId)
               IN IF paused.type = "options"
                  THEN LET idx == selectedOption(paused.data.options, inbound)
                           inb == [inbound EXCEPT
                                     !.type = "option-selection",
                                     !.matchedOption =
                                        IF idx # -1 THEN paused.data.options[idx + 1]
                                        ELSE Null,
                                     !.optionIndex =
                                        IF idx # -1 THEN idx ELSE IndexUndefined]
                           nextId == edgeForOption(Flow, paused.id, optionHandle(idx))
                       IN IF nextId # None /\ ~HasNode(Flow, nextId)
                          THEN [base EXCEPT !.session = errored, !.pc = "returned",
                                            !.exit = "resumeTargetMissing",
                                            !.inbound = inb,
                                            !.resumeHandle = optionHandle(idx)]
                          ELSE [base EXCEPT
                                  !.session = updateSession(session, "Active", Keep, ctx),
                                  !.inbound = inb,
                                  !.cur = nextId,
                                  !.ctx = recordInbound(ctx, inb),
                                  !.resumeHandle = optionHandle(idx)]
                  ELSE [base EXCEPT !.cur = paused.id,
                                    !.ctx = recordInbound(ctx, inbound)]
     ELSE LET matchedTrigger == selectTrigger(Flow, inbound.text)
          IN IF matchedTrigger # None
             THEN [base EXCEPT
                     !.cur = matchedTrigger,
                     !.ctx = recordInbound(
                               [ctx EXCEPT !.triggerMessage = inbound.text],
                               inbound)]
             ELSE [base EXCEPT !.pc = "returned", !.exit = "noTrigger"]

ResolveStart ==
  /\ pc = "start"
  /\ LET o == startOutcome
     IN /\ session' = o.session
        /\ pc' = o.pc
        /\ inbound' = o.inbound
        /\ ctx' = o.ctx
        /\ cur' = o.cur
        /\ exit' = o.exit
        /\ resumeHandle' = o.resumeHandle
  /\ UNCHANGED <<flowId, logs, caller, snap, nextNodeId, visited, steps,
                 sendResult, err, result, invocations, executed, outbox>>
  /\ UNCHANGED notFlowVars

(***************************************************************************)
(* executeFlow, main loop: the loop head with its two guards and the       *)
(* write of the current node.                                              *)
(***************************************************************************)
\* `steps++ > SAFE_MAX_STEPS`, evaluated on the value before the increment
stepGuardTrips(n) == n > SAFE_MAX_STEPS

\* faulty variant: the visited test never fires
visitedHasNever(v, id) == FALSE

\* `visited.has(currentNode.id)`
visitedHas(v, id) == id \in v

\* faulty variant: the node reached is not persisted as currentNodeId
LoopHeadNotPersisting ==
  /\ pc = "loop"
  /\ IF cur = None
     THEN /\ pc' = "returned"
          /\ exit' = "loopEnd"
          /\ UNCHANGED <<session, steps, visited, nextNodeId>>
     ELSE /\ steps' = steps + 1
          /\ IF stepGuardTrips(steps)
             THEN /\ session' = updateSession(session, "Errored", Keep, ctx)
                  /\ pc' = "returned"
                  /\ exit' = "guard"
                  /\ UNCHANGED <<visited, nextNodeId>>
             ELSE IF visitedHas(visited, cur)
             THEN /\ session' = updateSession(session, "Errored", Keep, ctx)
                  /\ pc' = "returned"
                  /\ exit' = "loop"
                  /\ UNCHANGED <<visited, nextNodeId>>
             ELSE /\ visited' = visited \cup {cur}
                  /\ session' = updateSession(session, Keep, Keep, ctx)
                  /\ nextNodeId' = None
                  /\ pc' = "node"
                  /\ exit' = None
  /\ UNCHANGED <<flowId, logs, caller, inbound, snap, ctx, cur, sendResult,
                 err, resumeHandle, result, invocations, executed, outbox>>
  /\ UNCHANGED notFlowVars

LoopHead ==
  /\ pc = "loop"
  /\ IF cur = None
     THEN \* `while (currentNode)` is false: executeFlow returns
          /\ pc' = "returned"
          /\ exit' = "loopEnd"
          /\ UNCHANGED <<session, steps, visited, nextNodeId>>
     ELSE /\ steps' = steps + 1
          /\ IF stepGuardTrips(steps)
             THEN /\ session' = updateSession(session, "Errored", Keep, ctx)
                  /\ pc' = "returned"
                  /\ exit' = "guard"
                  /\ UNCHANGED <<visited, nextNodeId>>
             ELSE IF visitedHas(visited, cur)
             THEN /\ session' = updateSession(session, "Errored", Keep, ctx)
                  /\ pc' = "returned"
                  /\ exit' = "loop"
                  /\ UNCHANGED <<visited, nextNodeId>>
             ELSE /\ visited' = visited \cup {cur}
                  /\ session' = updateSession(session, Keep, cur, ctx)
                  /\ nextNodeId' = None
                  /\ pc' = "node"
                  /\ exit' = None
  /\ UNCHANGED <<flowId, logs, caller, inbound, snap, ctx, cur, sendResult,
                 err, resumeHandle, result, invocations, executed, outbox>>
  /\ UNCHANGED notFlowVars

(***************************************************************************)
(* executeFlow, the node switch.                                           *)
(***************************************************************************)
CurNode == nodeById(Flow, cur)

API_KEY == <<"a", "p", "i", "R", "e", "s", "u", "l", "t">>
API_FAILED == <<"API call failed">>
API_OK == <<"o", "k">>

\* trigger, delay, condition, assign, goto: no send, no return
ExecPlainNode ==
  /\ pc = "node"
  /\ CurNode.type \in {"trigger", "delay", "condition", "assign", "goto"}
  /\ executed' = Append(executed, cur)
  /\ LET d == CurNode.data
     IN /\ ctx' = IF CurNode.type = "assign" /\ Truthy(d.key)
                  THEN setByPath(ctx, d.key,
                                 tpl(IF IsNullish(d.value) THEN <<>> ELSE d.value, ctx))
                  ELSE ctx
        /\ nextNodeId' =
             CASE CurNode.type = "condition" ->
                    edgeForCondition(Flow, cur,
                        safeEvalBool(IF IsNullish(d.expression) THEN <<"false">>
                                     ELSE d.expression, ctx) = "true")
               [] CurNode.type = "goto" -> d.targetNodeId
               [] OTHER -> None
  /\ pc' = "advance"
  /\ UNCHANGED <<flowId, session, logs, caller, inbound, snap, cur, visited,
                 steps, sendResult, err, exit, resumeHandle, result,
                 invocations, outbox>>
  /\ UNCHANGED notFlowVars

\* faulty variant: a failed call is not caught
apiNodeOutcomeUncaught(ok) ==
  [threw |-> ~ok, value |-> API_OK]

\* the api case's try / catch around apiCall: what is assigned, and whether
\* an exception leaves the case; ok is whether fetch answered in time
apiNodeOutcome(ok) ==
  [threw |-> FALSE, value |-> IF ok THEN API_OK ELSE API_FAILED]

\* the path the api node assigns to
apiAssignTo(n) ==
  IF IsNullish(n.data.assignTo) THEN API_KEY ELSE n.data.assignTo

\* api: the HTTP call answers or fails; either way the walk goes on
ExecApiNode ==
  /\ pc = "node"
  /\ CurNode.type = "api"
  /\ executed' = Append(executed, cur)
  /\ \E ok \in BOOLEAN :
       LET o == apiNodeOutcome(ok)
       IN IF o.threw
          THEN /\ err' = NoStatus
               /\ pc' = "catch"
               /\ UNCHANGED ctx
          ELSE /\ ctx' = setByPath(ctx, apiAssignTo(CurNode), o.value)
               /\ pc' = "advance"
               /\ UNCHANGED err
  /\ UNCHANGED <<flowId, session, logs, caller, inbound, snap, cur, nextNodeId,
                 visited, steps, sendResult, exit, resumeHandle, result,
                 invocations, outbox>>
  /\ UNCHANGED notFlowVars

SendingTypes == {"message", "options", "media", "whatsapp_flow"}

\* the message a sending node hands to sendMessage
sendPayload(f, n, c) ==
  LET d == n.data
  IN CASE n.type = "message" /\ d.useTemplate ->
            [SendMsg("template") EXCEPT
               !.templateName = IF IsNullish(d.templateName) THEN Undef
                                ELSE trim(d.templateName),
               !.templateLanguage = IF IsNullish(d.templateLanguage) THEN Undef
                                    ELSE trim(d.templateLanguage)]
       [] n.type = "message" /\ ~d.useTemplate -> SendMsg("text")
       [] n.type = "options" -> SendMsg("options")
       [] n.type = "media" ->
            [SendMsg("media") EXCEPT
               !.id = IF Truthy(d.id) THEN tpl(d.id, c) ELSE Undef,
               !.url = IF Truthy(d.url) THEN tpl(d.url, c) ELSE Undef]
       [] OTHER ->
            [SendMsg("flow") EXCEPT
               !.flowId = IF IsNullish(f.metaFlowId) THEN <<>> ELSE trim(f.metaFlowId),
               !.flowToken = IF IsNullish(f.metaFlowToken) THEN <<>>
                             ELSE trim(f.metaFlowToken)]

\* the checks that throw a FlowSendMessageError(400) before any send
throwsBeforeSend(f, n, c) ==
  LET m == sendPayload(f, n, c)
  IN \/ /\ m.type = "template"
        /\ ~(Truthy(m.templateName) /\ Truthy(m.templateLanguage))
     \/ /\ m.type = "flow"
        /\ \/ trim(tpl(n.data.body, c)) = <<>>
           \/ m.flowId = <<>>
           \/ m.flowToken = <<>>

\* message, options, media, whatsapp_flow: up to the answer of sendMessage
ExecSendNode ==
  /\ pc = "node"
  /\ CurNode.type \in SendingTypes
  /\ executed' = Append(executed, cur)
  /\ IF throwsBeforeSend(Flow, CurNode, ctx)
     THEN /\ err' = 400
          /\ pc' = "catch"
          /\ UNCHANGED <<sendResult, outbox>>
     ELSE \E r \in sendMessageOutcomes(sendPayload(Flow, CurNode, ctx), FALSE) :
            /\ sendResult' = r
            /\ outbox' = Append(outbox, [node |-> cur,
                                         type |-> sendPayload(Flow, CurNode, ctx).type,
                                         ok |-> r.success])
            /\ pc' = "sent"
            /\ err' = err
  /\ UNCHANGED <<flowId, session, logs, caller, inbound, snap, ctx, cur,
                 nextNodeId, visited, steps, exit, resumeHandle, result,
                 invocations>>
  /\ UNCHANGED notFlowVars

\* the text recordOutbound keeps as lastBotMessage for the node's send
outboundText(n, c) ==
  CASE n.type = "message" /\ n.data.useTemplate -> trim(n.data.templateName)
    [] n.type = "message" /\ ~n.data.useTemplate -> tpl(n.data.text, c)
    [] n.type = "options" -> tpl(n.data.text, c)
    [] n.type = "media" -> Undef
    [] OTHER -> tpl(n.data.body, c)

\* after the send: throw on failure, else record it; options pauses
AfterSend ==
  /\ pc = "sent"
  /\ IF ~sendResult.success
     THEN /\ err' = sendResult.status
          /\ pc' = "catch"
          /\ UNCHANGED <<ctx, session, exit>>
     ELSE LET c1 == recordOutbound(ctx, sendPayload(Flow, CurNode, ctx).type,
                                   outboundText(CurNode, ctx),
                                   CurNode.data.options)
          IN /\ ctx' = c1
             /\ err' = err
             /\ IF CurNode.type = "options"
                THEN /\ session' = updateSession(session, "Paused", Keep, c1)
                     /\ pc' = "returned"
                     /\ exit' = "optionsPaused"
                ELSE /\ pc' = "advance"
                     /\ UNCHANGED <<session, exit>>
  /\ UNCHANGED <<flowId, logs, caller, inbound, snap, cur, nextNodeId, visited,
                 steps, sendResult, resumeHandle, result, invocations,
                 executed, outbox>>
  /\ UNCHANGED notFlowVars

\* faulty variant: the walk goes on behind the handoff node
ExecHandoffNodeAdvancing ==
  /\ pc = "node"
  /\ CurNode.type = "handoff"
  /\ executed' = Append(executed, cur)
  /\ ctx' = [ctx EXCEPT !.handoffQueue = CurNode.data.queue]
  /\ session' = updateSession(session, "Paused", Keep, ctx')
  /\ pc' = "advance"
  /\ UNCHANGED <<flowId, logs, caller, inbound, snap, cur, nextNodeId, visited,
                 steps, sendResult, err, exit, resumeHandle, result, invocations,
                 outbox>>
  /\ UNCHANGED notFlowVars

\* handoff: pause for an agent
ExecHandoffNode ==
  /\ pc = "node"
  /\ CurNode.type = "handoff"
  /\ executed' = Append(executed, cur)
  /\ ctx' = [ctx EXCEPT !.handoffQueue = CurNode.data.queue]
  /\ session' = updateSession(session, "Paused", Keep, ctx')
  /\ pc' = "returned"
  /\ exit' = "handoff"
  /\ UNCHANGED <<flowId, logs, caller, inbound, snap, cur, nextNodeId, visited,
                 steps, sendResult, err, resumeHandle, result, invocations,
                 outbox>>
  /\ UNCHANGED notFlowVars

S_end == <<"e", "n", "d">>

\* end: complete the session
ExecEndNode ==
  /\ pc = "node"
  /\ CurNode.type = "end"
  /\ executed' = Append(executed, cur)
  /\ ctx' = [ctx EXCEPT !.endReason = IF IsNullish(CurNode.data.reason) THEN S_end
                                      ELSE CurNode.data.reason]
  /\ session' = updateSession(session, "Completed", NullNode, ctx')
  /\ pc' = "returned"
  /\ exit' = "end"
  /\ UNCHANGED <<flowId, logs, caller, inbound, snap, cur, nextNodeId, visited,
                 steps, sendResult, err, resumeHandle, result, invocations,
                 outbox>>
  /\ UNCHANGED notFlowVars

(***************************************************************************)
(* executeFlow, after the switch: choose the next node and persist.        *)
(***************************************************************************)
\* faulty variant: a condition node falls back to its first edge as well
nextOfFallingBack(f, id, explicit) ==
  IF explicit # None THEN explicit ELSE chooseFirstEdge(f, id)

\* the id of the node the walk continues at, None when there is none
nextOf(f, id, explicit) ==
  IF explicit # None THEN explicit
  ELSE IF NodeType(f, id) # "condition" THEN chooseFirstEdge(f, id)
  ELSE None

\* faulty variant: a missing next node is raised to the caller
AdvanceRaisingOnMissing ==
  /\ pc = "advance"
  /\ LET nid == nextOf(Flow, cur, nextNodeId)
     IN IF nid = None
        THEN /\ session' = updateSession(session, "Completed", NullNode, ctx)
             /\ pc' = "returned"
             /\ exit' = "noNext"
             /\ UNCHANGED cur
        ELSE IF ~HasNode(Flow, nid)
        THEN /\ session' = updateSession(session, "Errored", Keep, ctx)
             /\ pc' = "threw"
             /\ exit' = "nextMissing"
             /\ UNCHANGED cur
        ELSE /\ session' = updateSession(session, Keep, Keep, ctx)
             /\ cur' = nid
             /\ pc' = "loop"
             /\ UNCHANGED exit
  /\ UNCHANGED <<flowId, logs, caller, inbound, snap, ctx, nextNodeId, visited,
                 steps, sendResult, err, resumeHandle, result, invocations,
                 executed, outbox>>
  /\ UNCHANGED notFlowVars

Advance ==
  /\ pc = "advance"
  /\ LET nid == nextOf(Flow, cur, nextNodeId)
     IN IF nid = None
        THEN /\ session' = updateSession(session, "Completed", NullNode, ctx)
             /\ pc' = "returned"
             /\ exit' = "noNext"
             /\ UNCHANGED cur
        ELSE IF ~HasNode(Flow, nid)
        THEN /\ session' = updateSession(session, "Errored", Keep, ctx)
             /\ pc' = "returned"
             /\ exit' = "nextMissing"
             /\ UNCHANGED cur
        ELSE /\ session' = updateSession(session, Keep, Keep, ctx)
             /\ cur' = nid
             /\ pc' = "loop"
             /\ UNCHANGED exit
  /\ UNCHANGED <<flowId, logs, caller, inbound, snap, ctx, nextNodeId, visited,
                 steps, sendResult, err, resumeHandle, result, invocations,
                 executed, outbox>>
  /\ UNCHANGED notFlowVars

\* the catch block of the main loop: mark Errored, persist, re-raise
Catch ==
  /\ pc = "catch"
  /\ session' = updateSession(session, "Errored", Keep, ctx)
  /\ pc' = "threw"
  /\ exit' = "throw"
  /\ UNCHANGED <<flowId, logs, caller, inbound, snap, ctx, cur, nextNodeId,
                 visited, steps, sendResult, err, resumeHandle, result,
                 invocations, executed, outbox>>
  /\ UNCHANGED notFlowVars

(***************************************************************************)
(* The caller after executeFlow: catch, result, recordSessionSnapshot.     *)
(***************************************************************************)
\* faulty variant: the stored status is logged as it is
logStatusUnmapped(status) == status

LOG_STATUS_MAP(status) ==
  CASE status \in {"Active", "Paused"} -> "In Progress"
    [] status = "Completed" -> "Completed"
    [] status = "Errored" -> "Error"
    [] OTHER -> status

\* faulty variant: the error's own status is dropped
manualStatusCodeAlways500(errStatus) == 500

\* the status processManualFlowTrigger reports for a thrown error
manualStatusCode(errStatus) == IF errStatus # NoStatus THEN errStatus ELSE 500

CallerFinish ==
  /\ pc \in {"returned", "threw"}
  /\ session' = IF pc = "threw" THEN [session EXCEPT !.status = "Errored"]
                ELSE session
  /\ result' = IF caller = "manual"
               THEN (IF pc = "threw"
                     THEN [success |-> FALSE, status |-> manualStatusCode(err),
                           set |-> TRUE]
                     ELSE [success |-> TRUE, status |-> NoStatus, set |-> TRUE])
               ELSE NoResult
  /\ logs' = Append(logs, [status |-> LOG_STATUS_MAP(session'.status),
                           context |-> session'.context])
  /\ invocations' = invocations + 1
  /\ pc' = "idle"
  /\ UNCHANGED <<flowId, caller, inbound, snap, ctx, cur, nextNodeId, visited,
                 steps, sendResult, err, exit, resumeHandle, executed, outbox>>
  /\ UNCHANGED notFlowVars

(***************************************************************************)
(* Broadcast delivery-status reconciliation (meta.ts).                     *)
(***************************************************************************)
ST_Sent == <<"S", "e", "n", "t">>
ST_Delivered == <<"D", "e", "l", "i", "v", "e", "r", "e", "d">>
ST_Read == <<"R", "e", "a", "d">>
ST_Failed == <<"F", "a", "i", "l", "e", "d">>
ST_Warning == <<"W", "a", "r", "n", "i", "n", "g">>
ST_Pending == <<"P", "e", "n", "d", "i", "n", "g">>

BROADCAST_SUCCESS_STATUSES == {ST_Sent, ST_Delivered, ST_Read}
BROADCAST_FAILURE_STATUSES == {ST_Failed}

\* WHATSAPP_STATUS_MAP, Null when the key is absent
WHATSAPP_STATUS_MAP(k) ==
  CASE k = <<"s", "e", "n", "t">> -> ST_Sent
    [] k = <<"d", "e", "l", "i", "v", "e", "r", "e", "d">> -> ST_Delivered
    [] k = <<"r", "e", "a", "d">> -> ST_Read
    [] k = <<"f", "a", "i", "l", "e", "d">> -> ST_Failed
    [] k = <<"u", "n", "d", "e", "l", "i", "v", "e", "r", "e", "d">> -> ST_Failed
    [] k = <<"d", "e", "l", "e", "t", "e", "d">> -> ST_Failed
    [] k = <<"w", "a", "r", "n", "i", "n", "g">> -> ST_Warning
    [] k = <<"p", "e", "n", "d", "i", "n", "g">> -> ST_Pending
    [] k = <<"q", "u", "e", "u", "e", "d">> -> ST_Pending
    [] OTHER -> Null

mapWhatsappStatus(rawStatus) ==
  IF ~Truthy(rawStatus) THEN Null
  ELSE IF WHATSAPP_STATUS_MAP(toLowerCase(trim(rawStatus))) # Null
  THEN WHATSAPP_STATUS_MAP(toLowerCase(trim(rawStatus)))
  ELSE IF trim(rawStatus) = <<>> THEN Null
  ELSE <<UpperChar(Head(trim(rawStatus)))>> \o Tail(trim(rawStatus))

\* faulty variant: the previous status is not taken into account
aggregateDeltasIgnoringPrevious(previousStatus, nextStatus) ==
  IF ~Truthy(nextStatus) \/ previousStatus = nextStatus THEN <<0, 0>>
  ELSE << IF nextStatus \in BROADCAST_SUCCESS_STATUSES THEN 1 ELSE 0,
          IF nextStatus \in BROADCAST_FAILURE_STATUSES THEN 1 ELSE 0 >>

\* the (successDelta, failureDelta) adjustBroadcastAggregates applies
aggregateDeltas(previousStatus, nextStatus) ==
  IF ~Truthy(nextStatus) \/ previousStatus = nextStatus THEN <<0, 0>>
  ELSE LET prevSuccess == Truthy(previousStatus)
                          /\ previousStatus \in BROADCAST_SUCCESS_STATUSES
           nextSuccess == nextStatus \in BROADCAST_SUCCESS_STATUSES
           prevFailure == Truthy(previousStatus)
                          /\ previousStatus \in BROADCAST_FAILURE_STATUSES
           nextFailure == nextStatus \in BROADCAST_FAILURE_STATUSES
       IN << IF nextSuccess /\ ~prevSuccess THEN 1
             ELSE IF ~nextSuccess /\ prevSuccess THEN -1 ELSE 0,
             IF nextFailure /\ ~prevFailure THEN 1
             ELSE IF ~nextFailure /\ prevFailure THEN -1 ELSE 0 >>

\* prisma.broadcast.update with increment / decrement
adjustBroadcastAggregates(b, previousStatus, nextStatus) ==
  LET d == aggregateDeltas(previousStatus, nextStatus)
  IN [b EXCEPT !.successCount = @ + d[1], !.failureCount = @ + d[2]]

RecipientIds == {"r1", "r2"}
ReqIds == {1, 2}

\* messageId of a recipient; "m0" belongs to no recipient, "" is blank
MessageIdOf(r) == IF r = "r1" THEN "m1" ELSE "m2"
MessageIds == {"m1", "m2", "m0", ""}

RawStatuses ==
  {Null, <<"s", "e", "n", "t">>, <<" ", "R", "E", "A", "D">>,
   <<"f", "a", "i", "l", "e", "d">>, <<"h", "e", "l", "d">>,
   <<"d", "e", "l", "i", "v", "e", "r", "e", "d">>}

InitialStatuses == {ST_Pending, ST_Sent, ST_Failed}

CountIn(rs, set) == Cardinality({r \in RecipientIds : rs[r] \in set})

IdleReq == [pc |-> "next", left |-> MaxStatuses, rid |-> "r1",
            raw |-> Null, prev |-> Null, next |-> Null]

InitBcastOver(statuses) ==
  /\ recipients \in [RecipientIds -> statuses]
  /\ broadcast = [totalRecipients |-> Cardinality(RecipientIds),
                  successCount |-> CountIn(recipients, BROADCAST_SUCCESS_STATUSES),
                  failureCount |-> CountIn(recipients, BROADCAST_FAILURE_STATUSES)]
  /\ req = [q \in ReqIds |-> IdleReq]

InitBcast == InitBcastOver(InitialStatuses)

\* one status of the request: skip it, or read its recipient
BcastFind(q, messageId, rawStatus) ==
  /\ req[q].pc = "next"
  /\ req[q].left > 0
  /\ IF messageId = "" \/ ~\E r \in RecipientIds : MessageIdOf(r) = messageId
     THEN req' = [req EXCEPT ![q].left = @ - 1]
     ELSE LET r == CHOOSE r \in RecipientIds : MessageIdOf(r) = messageId
          IN req' = [req EXCEPT ![q].pc = "update", ![q].rid = r,
                                ![q].raw = rawStatus,
                                ![q].prev = recipients[r],
                                ![q].next = mapWhatsappStatus(rawStatus)]
  /\ UNCHANGED <<recipients, broadcast>>
  /\ UNCHANGED notBcastVars

\* the order in which a message passes through the delivery statuses
statusRank(s) ==
  CASE s = ST_Pending -> 0 [] s = ST_Sent -> 1 [] s = ST_Delivered -> 2
    [] s = ST_Read -> 3 [] OTHER -> 4

\* faulty variant: a status is stored only when it is further along
BcastUpdateMonotonic(q) ==
  /\ req[q].pc = "update"
  /\ recipients' = IF /\ Truthy(req[q].next)
                      /\ statusRank(req[q].next) > statusRank(recipients[req[q].rid])
                   THEN [recipients EXCEPT ![req[q].rid] = req[q].next]
                   ELSE recipients
  /\ req' = [req EXCEPT ![q].pc = "adjust"]
  /\ UNCHANGED broadcast
  /\ UNCHANGED notBcastVars

\* prisma.broadcastRecipient.update
BcastUpdate(q) ==
  /\ req[q].pc = "update"
  /\ recipients' = IF Truthy(req[q].next)
                   THEN [recipients EXCEPT ![req[q].rid] = req[q].next]
                   ELSE recipients
  /\ req' = [req EXCEPT ![q].pc = "adjust"]
  /\ UNCHANGED broadcast
  /\ UNCHANGED notBcastVars

\* adjustBroadcastAggregates with the status read before the update
BcastAdjust(q) ==
  /\ req[q].pc = "adjust"
  /\ broadcast' = adjustBroadcastAggregates(broadcast, req[q].prev, req[q].next)
  /\ req' = [req EXCEPT ![q] = [IdleReq EXCEPT !.left = req[q].left - 1]]
  /\ UNCHANGED recipients
  /\ UNCHANGED notBcastVars

(***************************************************************************)
(* sendMessage step by step, with addRecipientToAllowList (meta.ts).       *)
(***************************************************************************)
candidatePaths == <<"recipients", "registered_whatsapp_users">>

\* the messages a caller can hand to sendMessage
SendMessages ==
  {SendMsg("text"), SendMsg("options"), SendMsg("list"), SendMsg("media"),
   [SendMsg("media") EXCEPT !.url = <<"u">>],
   SendMsg("flow"),
   [SendMsg("flow") EXCEPT !.flowId = <<"1">>, !.flowToken = <<"x">>],
   SendMsg("template"),
   [SendMsg("template") EXCEPT !.templateName = <<"n">>,
                               !.templateLanguage = <<"e", "s">>]}

IdleSend ==
  [pc |-> "idle", msg |-> SendMsg("text"), allowListAttempted |-> FALSE,
   depth |-> 0, path |-> 1, resStatus |-> NoStatus, resCode |-> NoStatus,
   lastError |-> NoStatus, enrollAnswers |-> <<>>]

InitSend ==
  /\ sm = IdleSend
  /\ posts = 0
  /\ enrolls = 0
  /\ enrollPosts = <<>>
  /\ smResult = OkResult
  /\ sendCalls = 0

\* the part of sendMessage before the POST: phone, credentials, body
sendPrefix(call, toOk, credentialsOk) ==
  IF ~toOk THEN [pc |-> "done", result |-> Fail(400)]
  ELSE IF ~credentialsOk THEN [pc |-> "done", result |-> Fail(NoStatus)]
  ELSE IF ~BodyBuildable(call.msg) THEN [pc |-> "done", result |-> Fail(400)]
  ELSE [pc |-> "post", result |-> smResult]

\* a top-level call, as the executor makes it (no options)
SendCall(msg, toOk, credentialsOk) ==
  /\ sm.pc = "idle"
  /\ sendCalls < MaxSendCalls
  /\ LET call == [IdleSend EXCEPT !.msg = msg]
         o == sendPrefix(call, toOk, credentialsOk)
     IN /\ sm' = [call EXCEPT !.pc = o.pc]
        /\ smResult' = o.result
  /\ posts' = 0
  /\ enrolls' = 0
  /\ enrollPosts' = <<>>
  /\ UNCHANGED sendCalls
  /\ UNCHANGED notSendVars

\* answers of POST /messages: 200, a non-2xx answer, or no answer at all
\* (fetch threw or timed out; status NoStatus)
PostAnswers ==
  {[status |-> 200, code |-> NoStatus], [status |-> NoStatus, code |-> NoStatus]}
  \cup MetaErrorResponses

\* faulty variant: the allowListAttempted sentinel is not consulted
shouldEnrollWithoutSentinel(answer, allowListAttempted) ==
  /\ answer.status = 400
  /\ answer.code = RECIPIENT_NOT_ALLOWED_ERROR_CODE

\* the condition of the allow-list recovery branch
shouldEnroll(answer, allowListAttempted) ==
  /\ answer.status = 400
  /\ answer.code = RECIPIENT_NOT_ALLOWED_ERROR_CODE
  /\ ~allowListAttempted

\* POST /messages and the handling of its answer
SendPost(answer) ==
  /\ sm.pc = "post"
  /\ posts' = posts + 1
  /\ IF answer.status = 200
     THEN /\ smResult' = OkResult
          /\ sm' = [sm EXCEPT !.pc = "done", !.resStatus = answer.status,
                              !.resCode = answer.code]
          /\ UNCHANGED <<enrolls, enrollPosts>>
     ELSE IF answer.status = NoStatus
     THEN /\ smResult' = Fail(NoStatus)
          /\ sm' = [sm EXCEPT !.pc = "done", !.resStatus = answer.status,
                              !.resCode = answer.code]
          /\ UNCHANGED <<enrolls, enrollPosts>>
     ELSE IF shouldEnroll(answer, sm.allowListAttempted)
     THEN /\ sm' = [sm EXCEPT !.pc = "enroll", !.path = 1,
                              !.resStatus = answer.status,
                              !.resCode = answer.code,
                              !.lastError = NoStatus,
                              !.enrollAnswers = <<>>]
          /\ enrolls' = enrolls + 1
          /\ enrollPosts' = <<>>
          /\ UNCHANGED smResult
     ELSE /\ smResult' = Fail(answer.status)
          /\ sm' = [sm EXCEPT !.pc = "done", !.resStatus = answer.status,
                              !.resCode = answer.code]
          /\ UNCHANGED <<enrolls, enrollPosts>>
  /\ UNCHANGED sendCalls
  /\ UNCHANGED notSendVars

\* answers of an allow-list endpoint: a response with its status and its
\* lower-cased error message, a fetch that threw ("network"), or the
\* deadline of the enrollment ("abort")
FallbackMessages == {"unknown path components", "unsupported post request"}
EnrollAnswers ==
  {[kind |-> "response", status |-> 200, message |-> "none"],
   [kind |-> "network", status |-> NoStatus, message |-> "none"],
   [kind |-> "abort", status |-> NoStatus, message |-> "none"]}
    \cup [kind : {"response"}, status : {400, 404, 500},
          message : FallbackMessages \cup {"other"}]

isFallbackCandidate(answer) ==
  /\ answer.status = 400 \/ answer.status = 404
  /\ answer.message \in FallbackMessages

\* faulty variant: a fetch that threw ends the enrollment
afterEnrollAnswerReturningOnThrow(answer) ==
  IF answer.kind \in {"abort", "network"} THEN "return"
  ELSE IF answer.status = 200 THEN "success"
  ELSE IF isFallbackCandidate(answer) THEN "next"
  ELSE "return"

\* what the loop over candidatePaths does with an answer: the AbortError is
\* re-raised to the outer catch, any other exception is kept as lastError
\* and the loop goes on
afterEnrollAnswer(answer) ==
  IF answer.kind = "abort" THEN "return"
  ELSE IF answer.kind = "network" THEN "next"
  ELSE IF answer.status = 200 THEN "success"
  ELSE IF isFallbackCandidate(answer) THEN "next"
  ELSE "return"

\* the result of the enrollment when it fails: allowListResult.status ?? res.status
enrollFailure(status) ==
  Fail(IF status = NoStatus THEN sm.resStatus ELSE status)

\* one request of addRecipientToAllowList and what follows from its answer
SendEnroll(answer, credentialsOk) ==
  /\ sm.pc = "enroll"
  /\ enrollPosts' = Append(enrollPosts, candidatePaths[sm.path])
  /\ LET s0 == [sm EXCEPT !.enrollAnswers = Append(@, answer)]
     IN CASE afterEnrollAnswer(answer) = "success" ->
               \* enrolled: the original send is retried with the sentinel set
               LET call == [s0 EXCEPT !.allowListAttempted = TRUE,
                                      !.depth = @ + 1]
                   o == sendPrefix(call, TRUE, credentialsOk)
               IN /\ sm' = [call EXCEPT !.pc = o.pc]
                  /\ smResult' = o.result
          [] afterEnrollAnswer(answer) = "next" ->
               IF sm.path < Len(candidatePaths)
               THEN /\ sm' = [s0 EXCEPT !.path = @ + 1,
                                        !.lastError = answer.status]
                    /\ UNCHANGED smResult
               ELSE /\ sm' = [s0 EXCEPT !.pc = "done"]
                    /\ smResult' = enrollFailure(answer.status)
          [] OTHER ->
               /\ sm' = [s0 EXCEPT !.pc = "done"]
               /\ smResult' = enrollFailure(answer.status)
  /\ UNCHANGED <<posts, enrolls, sendCalls>>
  /\ UNCHANGED notSendVars

\* the top-level call returns to its caller
SendReturn ==
  /\ sm.pc = "done"
  /\ sm' = [sm EXCEPT !.pc = "idle"]
  /\ sendCalls' = sendCalls + 1
  /\ UNCHANGED <<posts, enrolls, enrollPosts, smResult>>
  /\ UNCHANGED notSendVars

(***************************************************************************)
(* Concurrent requests (webhook messages and manual triggers) for one      *)
(* phone and one flow: getOrCreateContactForUser, then                     *)
(* ensureActiveSessionForFlow, then executeFlow, each database call a step. *)
(***************************************************************************)
ProcIds == {1, 2}

NoRow == 0

\* request: what a manual trigger was called with; executed: the request
\* reached executeFlow and the snapshot after it; response: what the manual
\* trigger returned
NoRequest == [given |-> FALSE]
IdleProc == [pc |-> "idle", kind |-> "webhook", contact |-> NoRow,
             session |-> NoRow, reread |-> FALSE, calls |-> 0,
             request |-> NoRequest, executed |-> FALSE, response |-> NoResult]

InitRace ==
  /\ contacts = <<>>
  /\ sessions = <<>>
  /\ proc = [p \in ProcIds |-> IdleProc]

\* faulty variant: the store accepts a second row with the same key
uniqueViolationNever(rows) == FALSE

\* the unique constraint of a table, for the one key the model holds rows of:
\* an insert is rejected (P2002) when a row with the key exists
uniqueViolation(rows) == rows # <<>>

\* findFirst / findUnique on the key: the id of the row, or NoRow
findRow(rows) == IF rows = <<>> THEN NoRow ELSE rows[1].id

\* a request arrives and calls getOrCreateContactForUser
Arrive(p, kind) ==
  /\ proc[p].pc = "idle"
  /\ proc[p].calls < MaxArrivals
  /\ proc' = [proc EXCEPT ![p] = [IdleProc EXCEPT !.pc = "contactFind",
                                                  !.kind = kind,
                                                  !.calls = proc[p].calls]]
  /\ UNCHANGED <<contacts, sessions>>
  /\ UNCHANGED notRaceVars

\* prisma.contact.findFirst
ContactFind(p) ==
  /\ proc[p].pc = "contactFind"
  /\ LET found == findRow(contacts)
     IN proc' = [proc EXCEPT ![p].contact = found,
                             ![p].pc = IF found = NoRow THEN "contactCreate"
                                       ELSE "sessionFind"]
  /\ UNCHANGED <<contacts, sessions>>
  /\ UNCHANGED notRaceVars

\* faulty variant: a unique-constraint violation on create is re-thrown
afterContactCreateRethrowing(conflict) ==
  IF conflict THEN "failed" ELSE "sessionFind"

\* where getOrCreateContactForUser goes on after prisma.contact.create:
\* P2002 is the signal to read the row again
afterContactCreate(conflict) ==
  IF conflict THEN "contactReread" ELSE "sessionFind"

\* prisma.contact.create
ContactCreate(p) ==
  /\ proc[p].pc = "contactCreate"
  /\ LET conflict == uniqueViolation(contacts)
     IN /\ contacts' = IF conflict THEN contacts
                       ELSE Append(contacts, [id |-> p])
        /\ proc' = [proc EXCEPT ![p].pc = afterContactCreate(conflict),
                                ![p].contact = IF conflict THEN NoRow ELSE p]
  /\ UNCHANGED sessions
  /\ UNCHANGED notRaceVars

\* the findFirst of the catch block; no row is "Failed to resolve contact"
ContactReread(p) ==
  /\ proc[p].pc = "contactReread"
  /\ LET found == findRow(contacts)
     IN proc' = [proc EXCEPT ![p].contact = found,
                             ![p].reread = TRUE,
                             ![p].pc = IF found = NoRow THEN "failed"
                                       ELSE "sessionFind"]
  /\ UNCHANGED <<contacts, sessions>>
  /\ UNCHANGED notRaceVars

\* ensureActiveSessionForFlow: prisma.session.findUnique
SessionFind(p) ==
  /\ proc[p].pc = "sessionFind"
  /\ LET found == findRow(sessions)
     IN proc' = [proc EXCEPT
                   ![p].session = found,
                   ![p].pc = IF found = NoRow THEN "sessionCreate"
                             ELSE IF sessions[1].status \in {"Completed", "Errored"}
                             THEN "sessionReset"
                             ELSE "run"]
  /\ UNCHANGED <<contacts, sessions>>
  /\ UNCHANGED notRaceVars

\* faulty variant: the request whose insert is rejected goes on with the
\* row that is there
SessionCreateAdoptingRow(p) ==
  /\ proc[p].pc = "sessionCreate"
  /\ IF uniqueViolation(sessions)
     THEN /\ proc' = [proc EXCEPT ![p].pc = "run", ![p].session = findRow(sessions)]
          /\ UNCHANGED sessions
     ELSE /\ sessions' = Append(sessions, [id |-> p, status |-> "Active",
                                           currentNodeId |-> NullNode])
          /\ proc' = [proc EXCEPT ![p].pc = "run", ![p].session = p]
  /\ UNCHANGED contacts
  /\ UNCHANGED notRaceVars

\* ensureActiveSessionForFlow: prisma.session.create; a rejected insert
\* throws and the caller gives the request up
SessionCreate(p) ==
  /\ proc[p].pc = "sessionCreate"
  /\ IF uniqueViolation(sessions)
     THEN /\ proc' = [proc EXCEPT ![p].pc = "failed"]
          /\ UNCHANGED sessions
     ELSE /\ sessions' = Append(sessions, [id |-> p, status |-> "Active",
                                           currentNodeId |-> NullNode])
          /\ proc' = [proc EXCEPT ![p].pc = "run", ![p].session = p]
  /\ UNCHANGED contacts
  /\ UNCHANGED notRaceVars

\* prisma.session.update where id = ...: every row with that id
updateById(rows, id, status, currentNodeId) ==
  [i \in DOMAIN rows |->
     IF rows[i].id = id
     THEN [rows[i] EXCEPT !.status = status, !.currentNodeId = currentNodeId]
     ELSE rows[i]]

\* ensureActiveSessionForFlow: the reset of a Completed or Errored session
SessionReset(p) ==
  /\ proc[p].pc = "sessionReset"
  /\ sessions' = updateById(sessions, proc[p].session, "Active", NullNode)
  /\ proc' = [proc EXCEPT ![p].pc = "run"]
  /\ UNCHANGED contacts
  /\ UNCHANGED notRaceVars

\* what an executeFlow call can leave in the session row it was given
RunOutcomes ==
  {[status |-> "Active", currentNodeId |-> "o1", threw |-> FALSE],
   [status |-> "Paused", currentNodeId |-> "o1", threw |-> FALSE],
   [status |-> "Completed", currentNodeId |-> NullNode, threw |-> FALSE],
   [status |-> "Errored", currentNodeId |-> "m1", threw |-> FALSE],
   [status |-> "Errored", currentNodeId |-> "m1", threw |-> TRUE]}

\* what processManualFlowTrigger returns; the webhook handler returns nothing
manualResponse(kind, success, status) ==
  IF kind = "manual"
  THEN [success |-> success, status |-> status, set |-> TRUE]
  ELSE NoResult

\* executeFlow, by what it persists at its end, and the return of the request
Run(p, o) ==
  /\ proc[p].pc = "run"
  /\ sessions' = updateById(sessions, proc[p].session, o.status, o.currentNodeId)
  /\ proc' = [proc EXCEPT
                ![p].pc = "idle", ![p].calls = @ + 1, ![p].executed = TRUE,
                ![p].response =
                   IF o.threw
                   THEN manualResponse(proc[p].kind, FALSE,
                                       manualStatusCode(NoStatus))
                   ELSE manualResponse(proc[p].kind, TRUE, NoStatus)]
  /\ UNCHANGED contacts
  /\ UNCHANGED notRaceVars

\* the request is given up: the webhook handler returns, the manual trigger
\* answers 500
GiveUp(p) ==
  /\ proc[p].pc = "failed"
  /\ proc' = [proc EXCEPT ![p].pc = "idle", ![p].calls = @ + 1,
                          ![p].response = manualResponse(proc[p].kind, FALSE, 500)]
  /\ UNCHANGED <<contacts, sessions>>
  /\ UNCHANGED notRaceVars

(***************************************************************************)
(* Routing of an matchContext message to a flow (meta.ts): findBestMatchingFlow *)
(* and the part of handleIncomingWhatsappMessage that prefers the          *)
(* contact's open session.                                                 *)
(***************************************************************************)
NoFlow == 0

F_Active == "Active"
F_Inactive == "Inactive"

CH_whatsapp == <<"W", "h", "a", "t", "s", "A", "p", "p">>
CH_sms == <<"s", "m", "s">>

\* meta.ts isWhatsappChannel
isWhatsappChannel(channel) ==
  IF IsNullish(channel) THEN TRUE
  ELSE IF trim(channel) = <<>> THEN TRUE
  ELSE toLowerCase(trim(channel)) = toLowerCase(CH_whatsapp)

\* meta.ts collectKeywordCandidates
collectKeywordCandidates(text, interactiveTitle, interactiveId) ==
  collectNormalizedParts(normalizeTrigger(text))
    \cup collectNormalizedParts(normalizeTrigger(interactiveTitle))
    \cup collectNormalizedParts(normalizeTrigger(interactiveId))

\* findBestMatchingFlow: isDefaultTrigger of one flow
isDefaultTrigger(flow) == normalizeTrigger(flow.trigger) = DEFAULT_TRIGGER_KEYWORD

\* findBestMatchingFlow: matchesTrigger of one flow
matchesTrigger(flow, context) ==
  LET normalizedTrigger == normalizeTrigger(flow.trigger)
      normalizedText == normalizeTrigger(context.fullText)
      normalizedInteractiveTitle == normalizeTrigger(context.interactiveTitle)
      normalizedInteractiveId == normalizeTrigger(context.interactiveId)
      keywordCandidates ==
        collectKeywordCandidates(context.fullText, context.interactiveTitle,
                                 context.interactiveId)
  IN /\ normalizedTrigger # Null
     /\ ~isDefaultTrigger(flow)
     /\ \/ normalizedTrigger \in keywordCandidates
        \/ normalizedText # Null /\ includes(normalizedText, normalizedTrigger)
        \/ /\ normalizedInteractiveTitle # Null
           /\ includes(normalizedInteractiveTitle, normalizedTrigger)
        \/ /\ normalizedInteractiveId # Null
           /\ normalizedInteractiveId = normalizedTrigger

\* faulty variant: a default trigger outranks a plain keyword match
scoreDefaultHigh(flow, context) ==
  IF matchesTrigger(flow, context) THEN 6
  ELSE IF isDefaultTrigger(flow) THEN 7 ELSE 0

\* findBestMatchingFlow: the score of one flow
score(flow, context) ==
  LET normalizedTrigger == normalizeTrigger(flow.trigger)
  IN IF matchesTrigger(flow, context)
     THEN 6
          + (IF normalizeTrigger(context.fullText) = normalizedTrigger
             THEN 2 ELSE 0)
          + (IF normalizeTrigger(context.interactiveTitle) = normalizedTrigger
             THEN 1 ELSE 0)
          + (IF normalizeTrigger(context.interactiveId) = normalizedTrigger
             THEN 1 ELSE 0)
     ELSE IF isDefaultTrigger(flow) THEN 1 ELSE 0

\* findBestMatchingFlow: the loop over the flows, from flow i on, carrying
\* bestFlow, bestScore and bestUpdatedAt
RECURSIVE bestFlowFrom(_, _, _, _)
bestFlowFrom(flows, context, i, best) ==
  IF i > Len(flows) THEN best
  ELSE LET s == score(flows[i], context)
           updatedAt == flows[i].updatedAt
       IN bestFlowFrom(flows, context, i + 1,
            IF s <= 0 THEN best
            ELSE IF \/ s > best.score
                    \/ s = best.score /\ updatedAt > best.updatedAt
                 THEN [flow |-> flows[i].id, score |-> s, updatedAt |-> updatedAt]
                 ELSE best)

\* findBestMatchingFlow: the first of the default flows after the stable
\* sort by updatedAt descending, or NoFlow
firstDefaultFlow(flows) ==
  LET defaults == {i \in DOMAIN flows : isDefaultTrigger(flows[i])}
  IN IF defaults = {} THEN NoFlow
     ELSE flows[CHOOSE i \in defaults :
                  \A j \in defaults :
                    \/ flows[j].updatedAt < flows[i].updatedAt
                    \/ flows[j].updatedAt = flows[i].updatedAt /\ i <= j].id

\* meta.ts findBestMatchingFlow: the id of the flow it returns, NoFlow for null
findBestMatchingFlow(flows, context) ==
  IF flows = <<>> THEN NoFlow
  ELSE LET best == bestFlowFrom(flows, context, 1,
                     [flow |-> NoFlow, score |-> -1, updatedAt |-> 0])
       IN IF best.flow # NoFlow THEN best.flow
          ELSE IF firstDefaultFlow(flows) # NoFlow THEN firstDefaultFlow(flows)
          ELSE flows[1].id

\* the rows the tenant starts with; a Flow row's id is its position
TenantFlows ==
  <<[id |-> 1, trigger |-> S_hola, updatedAt |-> 1, status |-> F_Active,
     channel |-> CH_whatsapp],
    [id |-> 2, trigger |-> S_yes, updatedAt |-> 2, status |-> F_Active,
     channel |-> Null],
    [id |-> 3, trigger |-> DEFAULT_TRIGGER_KEYWORD, updatedAt |-> 3,
     status |-> F_Active, channel |-> CH_whatsapp]>>

\* what extractUserText and the interactive reply hand to the matcher
Inbounds ==
  {[fullText |-> S_Hola, interactiveTitle |-> Null, interactiveId |-> Null],
   [fullText |-> S_Hola \o <<" ">> \o S_yes, interactiveTitle |-> Null,
    interactiveId |-> S_yes],
   [fullText |-> S_Yes, interactiveTitle |-> S_Yes, interactiveId |-> S_yes],
   [fullText |-> S_zzz, interactiveTitle |-> Null, interactiveId |-> Null]}

IdleRoute == [pc |-> "idle", flow |-> NoFlow, session |-> NoRow,
              best |-> NoFlow, messages |-> 0, edits |-> 0, clock |-> 4]

\* no webhook request under way
IdleHook == [pc |-> "idle", val |-> 1, msg |-> 1, handled |-> <<>>,
             cause |-> None, response |-> NoStatus]

InitRoute ==
  /\ tenantFlows = TenantFlows
  /\ contactSessions = <<>>
  /\ matchContext = CHOOSE m \in Inbounds : m.fullText = S_zzz
  /\ route = IdleRoute
  /\ changeValues = <<>>
  /\ hook = IdleHook

\* handleIncomingWhatsappMessage up to the resolution of the contact
Receive(m) ==
  /\ route.pc = "idle"
  /\ route.messages < MaxMessages
  /\ matchContext' = m
  /\ route' = [route EXCEPT !.pc = "select", !.flow = NoFlow, !.session = NoRow,
                            !.messages = @ + 1]
  /\ UNCHANGED <<tenantFlows, contactSessions>>
  /\ UNCHANGED notRouteVars

\* prisma.session.findFirst where status in [Active, Paused], ordered by
\* updatedAt descending: the position of the row, or NoRow
findOpenSession(rows) ==
  LET open == {i \in DOMAIN rows : rows[i].status \in {"Active", "Paused"}}
  IN IF open = {} THEN NoRow
     ELSE CHOOSE i \in open : \A j \in open : rows[j].updatedAt <= rows[i].updatedAt

\* faulty variant: the found session is kept whatever its flow's status is
sessionToContinueAnyStatus(existingSession, rows, flows) ==
  IF /\ existingSession # NoRow
     /\ isWhatsappChannel(flows[rows[existingSession].flow].channel)
  THEN existingSession ELSE NoRow

\* handleIncomingWhatsappMessage: the session kept out of existingSession,
\* after the channel test and the flow.status test
sessionToContinue(existingSession, rows, flows) ==
  IF /\ existingSession # NoRow
     /\ isWhatsappChannel(flows[rows[existingSession].flow].channel)
     /\ flows[rows[existingSession].flow].status = F_Active
  THEN existingSession ELSE NoRow

\* prisma.flow.findMany where status Active, ordered by updatedAt descending
\* (rows of equal updatedAt in any order), then the filter on the channel
availableFlows(flows) ==
  LET rows == {i \in DOMAIN flows : flows[i].status = F_Active}
      orders == {o \in [1..Cardinality(rows) -> rows] :
                   /\ \A i, j \in DOMAIN o : i # j => o[i] # o[j]
                   /\ \A i, j \in DOMAIN o :
                        i < j => flows[o[i]].updatedAt >= flows[o[j]].updatedAt}
      RECURSIVE whatsappOnly(_, _)
      whatsappOnly(o, i) ==
        IF i > Len(o) THEN <<>>
        ELSE (IF isWhatsappChannel(flows[o[i]].channel)
              THEN <<flows[o[i]]>> ELSE <<>>) \o whatsappOnly(o, i + 1)
  IN {whatsappOnly(o, 1) : o \in orders}

\* handleIncomingWhatsappMessage: the choice of the flow
SelectFlow ==
  /\ route.pc = "select"
  /\ LET kept == sessionToContinue(findOpenSession(contactSessions),
                                      contactSessions, tenantFlows)
     IN \E list \in availableFlows(tenantFlows) :
          LET flow == IF kept # NoRow THEN contactSessions[kept].flow
                      ELSE findBestMatchingFlow(list, matchContext)
          IN route' = [route EXCEPT
                         !.pc = IF flow = NoFlow THEN "idle" ELSE "ensure",
                         !.flow = flow, !.session = kept]
  /\ UNCHANGED <<tenantFlows, contactSessions, matchContext>>
  /\ UNCHANGED notRouteVars

\* ensureActiveSessionForFlow for the chosen flow
EnsureSession ==
  /\ route.pc = "ensure"
  /\ LET found == {i \in DOMAIN contactSessions :
                     contactSessions[i].flow = route.flow}
     IN IF found = {}
        THEN /\ contactSessions' =
                  Append(contactSessions,
                         [flow |-> route.flow, status |-> "Active",
                          updatedAt |-> route.clock])
             /\ route' = [route EXCEPT !.pc = "execute", !.clock = @ + 1,
                                       !.session = Len(contactSessions) + 1]
        ELSE LET s == CHOOSE i \in found : TRUE
             IN IF contactSessions[s].status \in {"Completed", "Errored"}
                THEN /\ contactSessions' =
                          [contactSessions EXCEPT ![s].status = "Active",
                                                  ![s].updatedAt = route.clock]
                     /\ route' = [route EXCEPT !.pc = "execute", !.clock = @ + 1,
                                               !.session = s]
                ELSE /\ route' = [route EXCEPT !.pc = "execute", !.session = s]
                     /\ UNCHANGED contactSessions
  /\ UNCHANGED <<tenantFlows, matchContext>>
  /\ UNCHANGED notRouteVars

\* the status executeFlow (or the handler's catch) can leave in the session;
\* Keep when the invocation writes nothing
ExecuteOutcomes == {"Active", "Paused", "Completed", "Errored", Keep}

\* executeFlow on the session of the chosen flow, by what it persists
Execute(o) ==
  /\ route.pc = "execute"
  /\ IF o = Keep
     THEN /\ route' = [route EXCEPT !.pc = "idle"]
          /\ UNCHANGED contactSessions
     ELSE /\ contactSessions' =
               [contactSessions EXCEPT ![route.session].status = o,
                                       ![route.session].updatedAt = route.clock]
          /\ route' = [route EXCEPT !.pc = "idle", !.clock = @ + 1]
  /\ UNCHANGED <<tenantFlows, matchContext>>
  /\ UNCHANGED notRouteVars

\* updateFlowById with a status in the payload, between two messages
updateFlowStatus(f, status) ==
  /\ route.pc = "idle"
  /\ route.edits < MaxMessages
  /\ tenantFlows[f].status # status
  /\ tenantFlows' = [tenantFlows EXCEPT ![f].status = status,
                                        ![f].updatedAt = route.clock]
  /\ route' = [route EXCEPT !.edits = @ + 1, !.clock = @ + 1]
  /\ UNCHANGED <<contactSessions, matchContext>>
  /\ UNCHANGED notRouteVars

\* updateFlowById with a channel in the payload, between two messages
updateFlowChannel(f, channel) ==
  /\ route.pc = "idle"
  /\ route.edits < MaxMessages
  /\ tenantFlows[f].channel # channel
  /\ tenantFlows' = [tenantFlows EXCEPT ![f].channel = channel,
                                        ![f].updatedAt = route.clock]
  /\ route' = [route EXCEPT !.edits = @ + 1, !.clock = @ + 1]
  /\ UNCHANGED <<contactSessions, matchContext>>
  /\ UNCHANGED notRouteVars

(***************************************************************************)
(* findBestMatchingFlow applied to candidate lists: every list of at most  *)
(* MaxCandidates flows over the triggers and timestamps below.             *)
(***************************************************************************)
CandidateTriggers == {S_hola, S_yes, DEFAULT_TRIGGER_KEYWORD, Null}
CandidateTimes == {1, 2}

CandidateLists ==
  UNION {[1..n -> CandidateTriggers \X CandidateTimes] : n \in 0..MaxCandidates}

\* the Flow rows of a candidate list
candidateRows(list) ==
  [i \in DOMAIN list |->
     [id |-> i, trigger |-> list[i][1], updatedAt |-> list[i][2],
      status |-> F_Active, channel |-> Null]]

InitMatch ==
  /\ tenantFlows \in {candidateRows(l) : l \in CandidateLists}
  /\ contactSessions = <<>>
  /\ matchContext \in Inbounds
  /\ route = IdleRoute
  /\ changeValues = <<>>
  /\ hook = IdleHook

\* one call findBestMatchingFlow(flows, context)
Match ==
  /\ route.pc = "idle"
  /\ route' = [route EXCEPT !.pc = "matched",
                            !.best = findBestMatchingFlow(tenantFlows, matchContext)]
  /\ UNCHANGED <<tenantFlows, contactSessions, matchContext>>
  /\ UNCHANGED notRouteVars

(***************************************************************************)
(* One webhook request: POST /meta/webhook (index.ts), processWebhookEvent *)
(* and, per message, handleIncomingWhatsappMessage by the way it ends.     *)
(***************************************************************************)
\* a change value: whether metadata.phone_number_id is present, whether it
\* carries statuses, and how many messages it carries
ChangeValue(phone, statuses, messages) ==
  [phone |-> phone, statuses |-> statuses, messages |-> messages]

ChangeValues ==
  {ChangeValue(TRUE, FALSE, n) : n \in 0..MaxValueMessages}
    \cup {ChangeValue(FALSE, FALSE, 1), ChangeValue(TRUE, TRUE, 1)}

Payloads == UNION {[1..n -> ChangeValues] : n \in 0..MaxChangeValues}

InitHook ==
  /\ changeValues \in Payloads
  /\ hook = IdleHook

\* the ways one handleIncomingWhatsappMessage call can go
MessageOutcomes ==
  {"ignored",          \* no sender or no text: return
   "contactFailed",    \* getOrCreateContactForUser threw: logged, return
   "lookupThrew",      \* prisma.session.findFirst / flow.findMany rejected
   "noFlow",           \* no Active flow: return
   "sessionFailed",    \* ensureActiveSessionForFlow threw: logged, return
   "executed",         \* executeFlow returned
   "flowThrew",        \* executeFlow threw: session marked Errored
   "flowThrewNoMark"}  \* executeFlow threw and the Errored update failed too

\* handleIncomingWhatsappMessage: whether the call throws, and whether it
\* leaves its session Errored
handleIncomingWhatsappMessage(o) ==
  [threw |-> o = "lookupThrew", errored |-> o = "flowThrew"]

\* faulty variant: the message loop lets the exception through
afterMessageRethrowing(threw) == IF threw THEN "rejected" ELSE "next"

\* processWebhookEvent: the try / catch around one message of the loop; the
\* end of the try and the end of the catch both go on with the next message
afterMessage(threw) == "next"

\* resolveUserForPhoneNumber: the user, none, or a rejected query
UserLookups == {"found", "notFound", "threw"}

\* POST /meta/webhook with an object payload: processWebhookEvent is called
PostWebhook ==
  /\ hook.pc = "idle"
  /\ hook' = [hook EXCEPT !.pc = IF changeValues = <<>> THEN "returned" ELSE "values"]
  /\ UNCHANGED changeValues
  /\ UNCHANGED notHookVars

\* processWebhookEvent: one iteration of the loop over the change values, up
\* to the message loop
ProcessValue(u) ==
  /\ hook.pc = "values"
  /\ IF hook.val > Len(changeValues)
     THEN hook' = [hook EXCEPT !.pc = "returned"]
     ELSE LET val == changeValues[hook.val]
          IN IF ~val.phone THEN hook' = [hook EXCEPT !.val = @ + 1]
             ELSE IF u = "threw"
                  THEN hook' = [hook EXCEPT !.pc = "rejected", !.cause = "userLookup"]
             ELSE IF u = "notFound" THEN hook' = [hook EXCEPT !.val = @ + 1]
             ELSE IF val.messages = 0 THEN hook' = [hook EXCEPT !.val = @ + 1]
             ELSE hook' = [hook EXCEPT !.pc = "messages", !.msg = 1]
  /\ UNCHANGED changeValues
  /\ UNCHANGED notHookVars

\* processWebhookEvent: one iteration of the loop over the messages
HandleMessage(o) ==
  /\ hook.pc = "messages"
  /\ LET r == handleIncomingWhatsappMessage(o)
         last == hook.msg = changeValues[hook.val].messages
     IN IF afterMessage(r.threw) = "rejected"
        THEN hook' = [hook EXCEPT !.pc = "rejected", !.cause = "message"]
        ELSE hook' = [hook EXCEPT
                        !.handled = Append(@, [val |-> hook.val, msg |-> hook.msg,
                                               threw |-> r.threw,
                                               errored |-> r.errored]),
                        !.msg = IF last THEN 1 ELSE @ + 1,
                        !.val = IF last THEN @ + 1 ELSE @,
                        !.pc = IF last THEN "values" ELSE "messages"]
  /\ UNCHANGED changeValues
  /\ UNCHANGED notHookVars

\* POST /meta/webhook: the response after processWebhookEvent settled
Respond ==
  /\ hook.pc \in {"returned", "rejected"}
  /\ hook' = [hook EXCEPT !.pc = "done",
                          !.response = IF hook.pc = "returned" THEN 200 ELSE 500]
  /\ UNCHANGED changeValues
  /\ UNCHANGED notHookVars

(***************************************************************************)
(* Specifications.                                                         *)
(***************************************************************************)
(***************************************************************************)
(* GET /meta/webhook: the subscription handshake (index.ts).               *)
(***************************************************************************)
S_subscribe == <<"s", "u", "b", "s", "c", "r", "i", "b", "e">>
S_unsubscribe == <<"u", "n">> \o S_subscribe
S_Forbidden == <<"F", "o", "r", "b", "i", "d", "d", "e", "n">>
S_InvalidVerification ==
  <<"I", "n", "v", "a", "l", "i", "d", " ", "v", "e", "r", "i", "f", "i", "c",
    "a", "t", "i", "o", "n", " ", "r", "e", "q", "u", "e", "s", "t">>

\* a value of req.query: a string, undefined, or an array/object of the
\* query-string parser
QString(s) == [type |-> "string", value |-> s]
QUndefined == [type |-> "undefined", value |-> <<>>]
QObject == [type |-> "object", value |-> <<>>]

\* q === s for a string s
strictEquals(q, s) == q.type = "string" /\ q.value = s

\* process.env.META_VERIFY_TOKEN ?? process.env.WHATSAPP_VERIFY_TOKEN ??
\* process.env.VERIFY_TOKEN ?? ""
VERIFY_TOKEN ==
  IF ~IsNullish(env.META_VERIFY_TOKEN) THEN env.META_VERIFY_TOKEN
  ELSE IF ~IsNullish(env.WHATSAPP_VERIFY_TOKEN) THEN env.WHATSAPP_VERIFY_TOKEN
  ELSE IF ~IsNullish(env.VERIFY_TOKEN) THEN env.VERIFY_TOKEN
  ELSE <<>>

\* faulty variant: an unset verify token is compared like any other
getWebhookUnconfigured(mode, token, challenge) ==
  IF strictEquals(mode, S_subscribe) /\ challenge.type = "string"
  THEN IF ~strictEquals(token, VERIFY_TOKEN)
       THEN [status |-> 403, body |-> S_Forbidden]
       ELSE [status |-> 200, body |-> challenge.value]
  ELSE [status |-> 400, body |-> S_InvalidVerification]

\* the handler's response
getWebhook(mode, token, challenge) ==
  IF strictEquals(mode, S_subscribe) /\ challenge.type = "string"
  THEN IF VERIFY_TOKEN = <<>> \/ ~strictEquals(token, VERIFY_TOKEN)
       THEN [status |-> 403, body |-> S_Forbidden]
       ELSE [status |-> 200, body |-> challenge.value]
  ELSE [status |-> 400, body |-> S_InvalidVerification]

EnvValues == {Undef, <<>>, S_k, S_v}
Environments ==
  [META_VERIFY_TOKEN : EnvValues, WHATSAPP_VERIFY_TOKEN : EnvValues,
   VERIFY_TOKEN : EnvValues]
QueryModes == {QUndefined, QString(S_subscribe), QString(S_unsubscribe)}
QueryTokens == {QUndefined, QObject, QString(<<>>), QString(S_k), QString(S_v)}
QueryChallenges == {QUndefined, QObject, QString(S_hi), QString(S_pick)}

NoQuery == [mode |-> QUndefined, token |-> QUndefined, challenge |-> QUndefined]
NoResponse == [status |-> NoStatus, body |-> <<>>]
IdleVerification == [answered |-> FALSE, query |-> NoQuery, response |-> NoResponse]

\* no verification request is part of the behaviour
InitNoVerify ==
  /\ env = [META_VERIFY_TOKEN |-> Undef, WHATSAPP_VERIFY_TOKEN |-> Undef,
            VERIFY_TOKEN |-> Undef]
  /\ verification = IdleVerification

GetWebhook(mode, token, challenge) ==
  /\ verification' =
       [answered |-> TRUE,
        query |-> [mode |-> mode, token |-> token, challenge |-> challenge],
        response |-> getWebhook(mode, token, challenge)]
  /\ UNCHANGED env
  /\ UNCHANGED notVerifyVars

(***************************************************************************)
(* sanitizeFlowDefinition (flow-schema.ts).  A JSON value is a record with *)
(* its kind in t; objects carry the properties the sanitizer looks at and  *)
(* one further property, "extra", standing for any other.                  *)
(***************************************************************************)
J_undefined == [t |-> "undefined"]
J_null == [t |-> "null"]
J_nonfinite == [t |-> "nonfinite"]            \* NaN, Infinity: typeof "number"
J_array == [t |-> "array"]                    \* an array of two or more items
JNumber(n) == [t |-> "number", n |-> n]
JString(s) == [t |-> "string", s |-> s]
JBoolean(b) == [t |-> "boolean", b |-> b]
JObject(tag) == [t |-> "object", tag |-> tag] \* a plain object, by content
JPosition(x, y, extra) == [t |-> "object", x |-> x, y |-> y, extra |-> extra]
JList(items) == [t |-> "list", items |-> items]
Rejected == [t |-> "rejected"]                \* ZodError or FlowSanitizationError

flowNodeTypes ==
  {"trigger", "message", "options", "delay", "condition", "api", "assign",
   "media", "whatsapp_flow", "handoff", "goto", "end"}

isPlainObject(v) == v.t = "object"

DigitValue(c) ==
  CASE c = "0" -> 0 [] c = "1" -> 1 [] c = "2" -> 2 [] c = "3" -> 3
    [] c = "4" -> 4 [] c = "5" -> 5 [] c = "6" -> 6 [] c = "7" -> 7
    [] c = "8" -> 8 [] c = "9" -> 9 [] OTHER -> -1

RECURSIVE digitsValue(_, _)
digitsValue(s, acc) ==
  IF s = <<>> THEN acc ELSE digitsValue(Tail(s), 10 * acc + DigitValue(Head(s)))

\* Number(v): a finite number or J_nonfinite
Number(v) ==
  CASE v.t = "number" -> v
    [] v.t = "null" -> JNumber(0)
    [] v.t = "boolean" -> JNumber(IF v.b THEN 1 ELSE 0)
    [] v.t = "string" ->
         (LET d == trim(v.s)
          IN IF \A i \in DOMAIN d : DigitValue(d[i]) >= 0
             THEN JNumber(digitsValue(d, 0)) ELSE J_nonfinite)
    [] OTHER -> J_nonfinite

\* z.coerce.number().finite().catch(0), made optional
coordinateSchema(v) ==
  IF v.t = "undefined" THEN v
  ELSE IF Number(v).t = "number" THEN Number(v) ELSE JNumber(0)

ensureCoordinate(v) ==
  IF v.t = "number" THEN v
  ELSE IF Number(v).t = "number" THEN Number(v) ELSE JNumber(0)

nonEmptyString(v) == v.t = "string" /\ Len(v.s) >= 1

\* the position as the schema returns it: unknown keys are stripped
parsePosition(p) ==
  IF p.t = "undefined" THEN p
  ELSE JPosition(coordinateSchema(p.x), coordinateSchema(p.y), J_undefined)

\* FlowNodeSchemaInternal: unknown keys of the node pass through
FlowNodeSchemaInternal(node) ==
  IF /\ nonEmptyString(node.id)
     /\ node.type.t = "string" /\ node.type.s \in flowNodeTypes
     /\ node.position.t \in {"undefined", "object"}
  THEN [node EXCEPT !.position = parsePosition(node.position)]
  ELSE Rejected

handleAccepted(h) == h.t \in {"undefined", "null", "string"}

FlowEdgeSchemaInternal(edge) ==
  IF /\ nonEmptyString(edge.id) /\ nonEmptyString(edge.source)
     /\ nonEmptyString(edge.target)
     /\ handleAccepted(edge.sourceHandle) /\ handleAccepted(edge.targetHandle)
  THEN edge
  ELSE Rejected

\* z.array(schema).default([])
parseArray(v, schema(_)) ==
  IF v.t = "undefined" THEN JList(<<>>)
  ELSE IF v.t # "list" THEN Rejected
  ELSE IF \E i \in DOMAIN v.items : schema(v.items[i]) = Rejected THEN Rejected
  ELSE JList([i \in DOMAIN v.items |-> schema(v.items[i])])

\* FlowDefinitionSchema: unknown keys of the definition are stripped
FlowDefinitionSchema(v) ==
  IF v.t = "undefined" THEN [t |-> "object", nodes |-> JList(<<>>), edges |-> JList(<<>>)]
  ELSE IF v.t # "object" THEN Rejected
  ELSE LET nodes == parseArray(v.nodes, FlowNodeSchemaInternal)
           edges == parseArray(v.edges, FlowEdgeSchemaInternal)
       IN IF nodes = Rejected \/ edges = Rejected THEN Rejected
          ELSE [t |-> "object", nodes |-> nodes, edges |-> edges]

EmptyObject == [t |-> "object", nodes |-> J_undefined, edges |-> J_undefined]

\* a string is trimmed and read as JSON; null and undefined become {}
parseFlowInput(input) ==
  IF input.t = "string"
  THEN IF trim(input.s) = <<>> THEN EmptyObject ELSE input.json
  ELSE IF input.t \in {"null", "undefined"} THEN EmptyObject
  ELSE input

\* faulty variant: a node without a position keeps none
sanitizePositionNulling(position) ==
  IF isPlainObject(position)
  THEN JPosition(ensureCoordinate(position.x), ensureCoordinate(position.y),
                 J_undefined)
  ELSE J_null

sanitizePosition(position) ==
  LET p == IF isPlainObject(position) THEN position
           ELSE JPosition(J_undefined, J_undefined, J_undefined)
  IN JPosition(ensureCoordinate(p.x), ensureCoordinate(p.y), J_undefined)

sanitizeNode(node) ==
  [node EXCEPT !.data = IF isPlainObject(node.data) THEN node.data ELSE JObject(0),
               !.position = sanitizePosition(node.position)]

normalizeHandle(handle) ==
  IF handle.t = "string" THEN handle
  ELSE IF handle.t = "null" THEN J_null
  ELSE J_undefined

sanitizeEdge(edge) ==
  [edge EXCEPT !.sourceHandle = normalizeHandle(edge.sourceHandle),
               !.targetHandle = normalizeHandle(edge.targetHandle)]

sanitizeFlowDefinition(input) ==
  LET raw == parseFlowInput(input)
      parsed == IF raw = Rejected THEN Rejected ELSE FlowDefinitionSchema(raw)
  IN IF parsed = Rejected THEN Rejected
     ELSE [t |-> "object",
           nodes |-> JList([i \in DOMAIN parsed.nodes.items |->
                              sanitizeNode(parsed.nodes.items[i])]),
           edges |-> JList([i \in DOMAIN parsed.edges.items |->
                              sanitizeEdge(parsed.edges.items[i])])]

\* the definitions handed to the sanitizer
S_7 == <<"7">>
S_pad12 == <<" ", "1", "2", " ">>
CoordinateInputs ==
  {J_undefined, J_null, J_nonfinite, J_array, JNumber(3), JBoolean(TRUE),
   JString(<<>>), JString(S_7), JString(S_pad12), JString(S_no)}
PositionInputs ==
  {J_undefined, J_null, J_array, JString(S_7)}
    \cup {JPosition(x, y, e) : x \in CoordinateInputs,
                               y \in {J_undefined, JString(S_7)},
                               e \in {J_undefined, JNumber(3)}}
DataInputs == {J_undefined, J_null, J_array, JString(S_hi), JObject(0), JObject(1)}
ExtraInputs == {J_undefined, JBoolean(TRUE), JObject(1)}
NodeInput(id, type, position, data, extra) ==
  [id |-> id, type |-> type, position |-> position, data |-> data,
   extra |-> extra]
PlainNode ==
  NodeInput(JString(S_k), JString("message"), J_undefined, J_undefined,
            J_undefined)
NodeInputs ==
  {NodeInput(JString(S_k), JString("message"), p, d, x) :
     p \in PositionInputs, d \in DataInputs, x \in ExtraInputs}
    \cup {NodeInput(i, t, J_undefined, JObject(1), J_undefined) :
            i \in {JString(S_k), JString(<<>>), JNumber(3), J_undefined},
            t \in {JString("trigger"), JString("bogus"), J_undefined}}
HandleInputs == {J_undefined, J_null, JString(<<>>), JString(S_yes), JNumber(3)}
EdgeInput(id, source, target, sourceHandle, targetHandle, extra) ==
  [id |-> id, source |-> source, target |-> target,
   sourceHandle |-> sourceHandle, targetHandle |-> targetHandle,
   extra |-> extra]
EdgeInputs ==
  {EdgeInput(JString(S_v), JString(S_k), t, sh, th, x) :
     t \in {JString(S_k), JString(<<>>), J_null},
     sh \in HandleInputs, th \in HandleInputs, x \in ExtraInputs}
ListInputs(items) ==
  {J_undefined, J_null, JList(<<>>)}
    \cup {JList(<<i>>) : i \in items}
DefinitionObject(nodes, edges) ==
  [t |-> "object", nodes |-> nodes, edges |-> edges, extra |-> JNumber(3)]
ObjectInputs ==
  {DefinitionObject(n, JList(<<>>)) : n \in ListInputs(NodeInputs)}
    \cup {DefinitionObject(JList(<<PlainNode>>), e) : e \in ListInputs(EdgeInputs)}
    \cup {DefinitionObject(JList(<<PlainNode, n>>), JList(<<e>>)) :
            n \in {m \in NodeInputs : m.data = J_array /\ m.extra = J_undefined},
            e \in {d \in EdgeInputs : d.sourceHandle = d.targetHandle}}
\* a string input with the value JSON.parse gives for it
JsonText(s, json) == [t |-> "string", s |-> s, json |-> json]
DefinitionInputs ==
  ObjectInputs
    \cup {J_undefined, J_null, J_array, JNumber(3),
          JsonText(<<" ">>, Rejected), JsonText(S_no, Rejected),
          JsonText(S_7, JNumber(7))}
    \cup {JsonText(S_pick, o) :
            o \in {DefinitionObject(n, JList(<<>>)) :
                     n \in ListInputs({m \in NodeInputs : m.data = J_null})}}

NoDefinition == [t |-> "none"]

\* no definition is being sanitized
InitNoSanitize ==
  sanitizing = [stage |-> "idle", input |-> NoDefinition,
                once |-> NoDefinition, twice |-> NoDefinition]

\* the definition is sanitized, as on every save and every load
Sanitize ==
  /\ sanitizing.stage = "input"
  /\ sanitizing' = [sanitizing EXCEPT !.stage = "once",
                      !.once = sanitizeFlowDefinition(sanitizing.input)]
  /\ UNCHANGED notSchemaVars

\* an accepted definition is sanitized again
SanitizeAgain ==
  /\ sanitizing.stage = "once"
  /\ sanitizing.once # Rejected
  /\ sanitizing' = [sanitizing EXCEPT !.stage = "twice",
                      !.twice = sanitizeFlowDefinition(sanitizing.once)]
  /\ UNCHANGED notSchemaVars

(***************************************************************************)
(* processManualFlowTrigger before the contact is resolved (meta.ts).      *)
(***************************************************************************)
\* value.replace(/[^0-9]/g, "")
RECURSIVE digitsOf(_)
digitsOf(s) ==
  IF s = <<>> THEN <<>>
  ELSE (IF DigitValue(Head(s)) >= 0 THEN <<Head(s)>> ELSE <<>>)
         \o digitsOf(Tail(s))

normalizePhone(value) ==
  IF ~Truthy(value) THEN Null
  ELSE IF digitsOf(value) = <<>> THEN Null ELSE digitsOf(value)

\* a string field trimmed, Null when it is not a string
trimmedOrNull(v) == IF IsNullish(v) THEN Null ELSE trim(v)

\* the text handed to the executor: message, else rawText, else the
\* interactive title, else the interactive id; Null when none is usable
candidateMessage(options) ==
  LET usable(v) == trimmedOrNull(v) # Null /\ Len(trimmedOrNull(v)) > 0
  IN IF usable(options.message) THEN trim(options.message)
     ELSE IF usable(options.rawText) THEN trim(options.rawText)
     ELSE IF usable(options.interactiveTitle) THEN trim(options.interactiveTitle)
     ELSE IF usable(options.interactiveId) THEN trim(options.interactiveId)
     ELSE Null

\* faulty variant: the flow's status is not looked at
manualPrefixAnyStatus(options) ==
  IF normalizePhone(IF IsNullish(options.from) THEN <<>> ELSE trim(options.from)) = Null
  THEN 400
  ELSE IF ~options.flow.exists THEN 404
  ELSE IF ~isWhatsappChannel(options.flow.channel) THEN 409
  ELSE IF candidateMessage(options) = Null THEN 400
  ELSE NoStatus

\* the status of the early return, NoStatus when the call goes on
manualPrefix(options) ==
  IF normalizePhone(IF IsNullish(options.from) THEN <<>> ELSE trim(options.from)) = Null
  THEN 400
  ELSE IF ~options.flow.exists THEN 404
  ELSE IF ~isWhatsappChannel(options.flow.channel) THEN 409
  ELSE IF options.flow.status # F_Active THEN 409
  ELSE IF candidateMessage(options) = Null THEN 400
  ELSE NoStatus

\* what prisma.flow.findUnique finds for the request's flowId
FlowLookups ==
  {[exists |-> FALSE, status |-> F_Inactive, channel |-> Null],
   [exists |-> TRUE, status |-> F_Active, channel |-> CH_whatsapp],
   [exists |-> TRUE, status |-> F_Active, channel |-> Null],
   [exists |-> TRUE, status |-> F_Inactive, channel |-> CH_whatsapp],
   [exists |-> TRUE, status |-> F_Active, channel |-> CH_sms]}

S_phone == <<"+", "5", "4", " ", "9">>
ManualRequest(from, flow, message, rawText, interactiveTitle, interactiveId) ==
  [given |-> TRUE, from |-> from, flow |-> flow, message |-> message,
   rawText |-> rawText, interactiveTitle |-> interactiveTitle,
   interactiveId |-> interactiveId]
ValidRequest ==
  ManualRequest(S_phone, [exists |-> TRUE, status |-> F_Active,
                          channel |-> CH_whatsapp], S_hola, Undef, Undef, Undef)
ManualRequests ==
  {[ValidRequest EXCEPT !.from = f] : f \in {Undef, <<" ">>, S_no, S_phone}}
    \cup {[ValidRequest EXCEPT !.flow = w] : w \in FlowLookups}
    \cup {[ValidRequest EXCEPT !.message = m, !.rawText = r,
                               !.interactiveId = i] :
            m \in {Undef, <<" ">>}, r \in {Undef, S_hi}, i \in {<<>>, S_yes}}
    \cup {[ValidRequest EXCEPT !.from = S_no, !.flow = w, !.message = Undef] :
            w \in {l \in FlowLookups : ~l.exists \/ l.status = F_Inactive}}

\* a manual trigger arrives: it is turned away, or goes on to
\* getOrCreateContactForUser
TriggerManual(p, options) ==
  /\ proc[p].pc = "idle"
  /\ proc[p].calls < MaxArrivals
  /\ proc' = [proc EXCEPT ![p] =
       IF manualPrefix(options) # NoStatus
       THEN [IdleProc EXCEPT
               !.kind = "manual", !.request = options,
               !.calls = proc[p].calls + 1,
               !.response = manualResponse("manual", FALSE, manualPrefix(options))]
       ELSE [IdleProc EXCEPT !.pc = "contactFind", !.kind = "manual",
                             !.request = options, !.calls = proc[p].calls]]
  /\ UNCHANGED <<contacts, sessions>>
  /\ UNCHANGED notRaceVars

(***************************************************************************)
(* Reply buttons of an options node: the ids sendMessage emits (meta.ts)   *)
(* and the selection the executor makes when one comes back.               *)
(***************************************************************************)
S_opt == <<"o", "p", "t">>

\* toLcTrim of meta.ts
toLcTrim(s) == toLowerCase(trim(IF IsNullish(s) THEN <<>> ELSE s))

\* the id of the reply button of option opt
buttonId(opt) ==
  LET id == replaceSpaceRuns(toLcTrim(opt))
  IN IF id = <<>> THEN S_opt ELSE id

MaxButtons == 3

\* `(message.options || []).slice(0, 3)` mapped to the buttons' ids
buttonIds(options) ==
  [i \in 1..(IF Len(options) < MaxButtons THEN Len(options) ELSE MaxButtons)
     |-> buttonId(options[i])]

S_padYes == <<" ", "y", "e", "s", " ">>
S_no_no == <<"n", "o", " ", "n", "o">>

\* option texts: plain, padded, with inner whitespace, empty, and texts that
\* read like a positional handle
OptionTexts ==
  {S_Yes, S_No, S_padYes, S_no_no, <<>>, OptHandle(0), OptHandle(1)}

MaxOptions == 4

OptionLists ==
  UNION {[1..n -> OptionTexts] : n \in 1..MaxOptions}

NoButtons ==
  [stage |-> "idle", options |-> <<>>, emitted |-> <<>>, tapped |-> -1,
   reply |-> [text |-> Null, interactiveId |-> Null], idx |-> -1,
   handle |-> Null]

\* no options node is being followed
InitNoReply == buttons = NoButtons

\* sendMessage builds the interactive message of the options node
SendButtons ==
  /\ buttons.stage = "node"
  /\ buttons' = [buttons EXCEPT !.stage = "sent",
                                !.emitted = buttonIds(buttons.options)]
  /\ UNCHANGED notReplyVars

\* the user taps button i; the webhook reads its id and its title
TapButton(i) ==
  /\ buttons.stage = "sent"
  /\ i + 1 \in DOMAIN buttons.emitted
  /\ buttons' = [buttons EXCEPT
                   !.stage = "tapped",
                   !.tapped = i,
                   !.reply = [text |-> trim(buttons.options[i + 1]),
                              interactiveId |-> buttons.emitted[i + 1]]]
  /\ UNCHANGED notReplyVars

\* executeFlow resumes the session paused at the options node
ResumeAtButtons ==
  /\ buttons.stage = "tapped"
  /\ LET idx == selectedOption(buttons.options, buttons.reply)
     IN buttons' = [buttons EXCEPT !.stage = "resumed",
                                   !.idx = idx,
                                   !.handle = optionHandle(idx)]
  /\ UNCHANGED notReplyVars

(***************************************************************************)
(* Two webhook requests for one contact: each resolves the session row and *)
(* calls executeFlow with the object it read.  Every prisma call is one    *)
(* step; the steps of the two invocations interleave freely.               *)
(***************************************************************************)
WalkIds == {1, 2}

IdleWalk ==
  [pc |-> "idle", given |-> NoSession, payload |-> NoInbound, cur |-> None,
   nextNodeId |-> None, visited |-> {}, steps |-> 0, calls |-> 0]

\* no request is being followed step by step
InitNoOverlap ==
  /\ stored = NoSession
  /\ walk = [p \in WalkIds |-> IdleWalk]

\* the invocation is over: the request returns
walkReturned(w) ==
  [w EXCEPT !.pc = "idle", !.calls = @ + 1, !.cur = None, !.visited = {},
            !.steps = 0, !.nextNodeId = None]

\* the request reads the contact's session row
WalkFind(p, input) ==
  /\ walk[p].pc = "idle"
  /\ walk[p].calls < MaxArrivals
  /\ walk' = [walk EXCEPT ![p] = [IdleWalk EXCEPT !.pc = "found",
                                                  !.given = stored,
                                                  !.payload = input,
                                                  !.calls = walk[p].calls]]
  /\ UNCHANGED stored
  /\ UNCHANGED notOverlapVars

\* ensureActiveSessionForFlow on the row read: a Completed or Errored
\* session is reset by an update, any other is handed on as read
WalkEnsure(p) ==
  /\ walk[p].pc = "found"
  /\ LET reset == ensureActiveSessionForFlow(walk[p].given)
     IN /\ stored' = IF reset # walk[p].given
                     THEN updateSession(stored, "Active", NullNode, EmptyContext)
                     ELSE stored
        /\ walk' = [walk EXCEPT ![p].pc = "start", ![p].given = reset]
  /\ UNCHANGED notOverlapVars

\* executeFlow, "Find starting node", on the object the invocation was given
WalkResolve(p) ==
  /\ walk[p].pc = "start"
  /\ LET w == walk[p]
         errored == updateSession(stored, "Errored", Keep, EmptyContext)
     IN IF w.given.currentNodeId # NullNode /\ w.given.status = "Paused"
        THEN IF ~HasNode(Flow, w.given.currentNodeId)
             THEN /\ stored' = errored
                  /\ walk' = [walk EXCEPT ![p] = walkReturned(w)]
             ELSE LET paused == nodeById(Flow, w.given.currentNodeId)
                  IN IF paused.type = "options"
                     THEN LET idx == selectedOption(paused.data.options, w.payload)
                              nextId == edgeForOption(Flow, paused.id,
                                                      optionHandle(idx))
                          IN IF nextId # None /\ ~HasNode(Flow, nextId)
                             THEN /\ stored' = errored
                                  /\ walk' = [walk EXCEPT ![p] = walkReturned(w)]
                             ELSE /\ stored' = updateSession(stored, "Active", Keep,
                                                             EmptyContext)
                                  /\ walk' = [walk EXCEPT ![p].pc = "loop",
                                                          ![p].cur = nextId]
                     ELSE /\ walk' = [walk EXCEPT ![p].pc = "loop",
                                                  ![p].cur = paused.id]
                          /\ UNCHANGED stored
        ELSE LET matchedTrigger == selectTrigger(Flow, w.payload.text)
             IN /\ walk' = [walk EXCEPT ![p] =
                              IF matchedTrigger # None
                              THEN [w EXCEPT !.pc = "loop", !.cur = matchedTrigger]
                              ELSE walkReturned(w)]
                /\ UNCHANGED stored
  /\ UNCHANGED notOverlapVars

\* the head of the main loop: the two guards, then currentNodeId is stored
WalkHead(p) ==
  /\ walk[p].pc = "loop"
  /\ LET w == walk[p]
     IN IF w.cur = None
        THEN /\ walk' = [walk EXCEPT ![p] = walkReturned(w)]
             /\ UNCHANGED stored
        ELSE IF stepGuardTrips(w.steps) \/ visitedHas(w.visited, w.cur)
        THEN /\ stored' = updateSession(stored, "Errored", Keep, EmptyContext)
             /\ walk' = [walk EXCEPT ![p] = walkReturned(w)]
        ELSE /\ stored' = updateSession(stored, Keep, w.cur, EmptyContext)
             /\ walk' = [walk EXCEPT ![p].pc = "node",
                                     ![p].steps = w.steps + 1,
                                     ![p].visited = w.visited \cup {w.cur},
                                     ![p].nextNodeId = None]
  /\ UNCHANGED notOverlapVars

\* the node's case: a send that succeeds or fails, the pause of an options
\* node, the completion of an end node; any other node has nothing stored
WalkNode(p, sent) ==
  /\ walk[p].pc = "node"
  /\ LET w == walk[p]
         type == NodeType(Flow, w.cur)
     IN IF type \in SendingTypes /\ ~sent
        THEN /\ walk' = [walk EXCEPT ![p].pc = "catch"]
             /\ UNCHANGED stored
        ELSE IF type = "options"
        THEN /\ stored' = updateSession(stored, "Paused", Keep, EmptyContext)
             /\ walk' = [walk EXCEPT ![p] = walkReturned(w)]
        ELSE IF type = "end"
        THEN /\ stored' = updateSession(stored, "Completed", NullNode, EmptyContext)
             /\ walk' = [walk EXCEPT ![p] = walkReturned(w)]
        ELSE /\ walk' = [walk EXCEPT ![p].pc = "advance"]
             /\ UNCHANGED stored
  /\ UNCHANGED notOverlapVars

\* after the switch: the next node, or the completion of the session
WalkAdvance(p) ==
  /\ walk[p].pc = "advance"
  /\ LET w == walk[p]
         nid == nextOf(Flow, w.cur, w.nextNodeId)
     IN IF nid = None
        THEN /\ stored' = updateSession(stored, "Completed", NullNode, EmptyContext)
             /\ walk' = [walk EXCEPT ![p] = walkReturned(w)]
        ELSE IF ~HasNode(Flow, nid)
        THEN /\ stored' = updateSession(stored, "Errored", Keep, EmptyContext)
             /\ walk' = [walk EXCEPT ![p] = walkReturned(w)]
        ELSE /\ stored' = updateSession(stored, Keep, Keep, EmptyContext)
             /\ walk' = [walk EXCEPT ![p].pc = "loop", ![p].cur = nid]
  /\ UNCHANGED notOverlapVars

\* the catch block: Errored is stored and the error re-raised to the
\* webhook handler, which logs it
WalkCatch(p) ==
  /\ walk[p].pc = "catch"
  /\ stored' = updateSession(stored, "Errored", Keep, EmptyContext)
  /\ walk' = [walk EXCEPT ![p] = walkReturned(walk[p])]
  /\ UNCHANGED notOverlapVars

vars ==
  <<flowVars, bcastVars, sendVars, raceVars, routeVars, hookVars, verifyVars,
    schemaVars, replyVars, overlapVars>>

\* the flow engine alone; no status callback, no direct sendMessage call
Init == InitFlow /\ InitBcastOver({ST_Pending}) /\ InitSend /\ InitRace /\ InitNoVerify /\ InitNoSanitize /\ InitNoReply /\ InitNoOverlap /\ InitRoute

\* the store as the broadcast and send specifications start from
InitIdleFlow == InitFlowOver({"linear"})

\* a broadcast whose recipients are in any of the initial statuses
InitBroadcast == InitIdleFlow /\ InitBcast /\ InitSend /\ InitRace /\ InitNoVerify /\ InitNoSanitize /\ InitNoReply /\ InitNoOverlap /\ InitRoute

\* no sendMessage call running
InitSending ==
  InitIdleFlow /\ InitBcastOver({ST_Pending}) /\ InitSend /\ InitRace /\ InitNoVerify /\ InitNoSanitize /\ InitNoReply /\ InitNoOverlap /\ InitRoute

\* the flow engine: inbound events handled one after another
Next ==
  \/ \E c \in Callers, i \in Inputs : Begin(c, i)
  \/ ResolveStart
  \/ LoopHead
  \/ ExecPlainNode
  \/ ExecApiNode
  \/ ExecSendNode
  \/ AfterSend
  \/ ExecHandoffNode
  \/ ExecEndNode
  \/ Advance
  \/ Catch
  \/ CallerFinish

Spec == Init /\ [][Next]_vars

\* status callbacks processed one after another: a request takes a step
\* only while no other request is inside processBroadcastStatuses
OthersIdle(q) == \A o \in ReqIds \ {q} : req[o].pc = "next"

SeqFind(q, messageId, rawStatus) == OthersIdle(q) /\ BcastFind(q, messageId, rawStatus)
SeqUpdate(q) == OthersIdle(q) /\ BcastUpdate(q)
SeqAdjust(q) == OthersIdle(q) /\ BcastAdjust(q)

NextBcastSeq ==
  \/ \E q \in ReqIds, m \in MessageIds, s \in RawStatuses : SeqFind(q, m, s)
  \/ \E q \in ReqIds : SeqUpdate(q)
  \/ \E q \in ReqIds : SeqAdjust(q)

SpecBcastSeq == InitBroadcast /\ [][NextBcastSeq]_vars

\* two webhook requests reconciling concurrently
NextBcast ==
  \/ \E q \in ReqIds, m \in MessageIds, s \in RawStatuses : BcastFind(q, m, s)
  \/ \E q \in ReqIds : BcastUpdate(q)
  \/ \E q \in ReqIds : BcastAdjust(q)

SpecBcast == InitBroadcast /\ [][NextBcast]_vars

\* sendMessage against every answer of the Meta API
NextSend ==
  \/ \E m \in SendMessages, toOk \in BOOLEAN, credentialsOk \in BOOLEAN :
       SendCall(m, toOk, credentialsOk)
  \/ \E a \in PostAnswers : SendPost(a)
  \/ \E a \in EnrollAnswers, credentialsOk \in BOOLEAN :
       SendEnroll(a, credentialsOk)
  \/ SendReturn

SpecSend == InitSending /\ [][NextSend]_vars

(***************************************************************************)
(* The flow's definition is replaced between invocations (updateFlowById); *)
(* sessions are not touched by the replacement.                            *)
(***************************************************************************)
\* the definitions an edit can put in place; each behaviour edits once
EditFlows == {"linear", "branch"}

updateFlowById(f) ==
  /\ pc = "idle"
  /\ flowId \notin EditFlows
  /\ flowId' = f
  /\ UNCHANGED <<session, logs, pc, caller, inbound, snap, ctx, cur, nextNodeId,
                 visited, steps, sendResult, err, exit, resumeHandle, result,
                 invocations, executed, outbox>>
  /\ UNCHANGED notFlowVars

\* one more inbound event than in Spec, so that a session left behind by two
\* invocations meets an edited definition
BeginEdited(c, input) == invocations < MaxInvocations + 1 /\ BeginCall(c, input)

InitEdit ==
  /\ InitFlowOver({"menu", "menuBroken"})
  /\ InitBcastOver({ST_Pending}) /\ InitSend /\ InitRace /\ InitNoVerify /\ InitNoSanitize /\ InitNoReply /\ InitNoOverlap /\ InitRoute

NextEdit ==
  \/ \E c \in Callers, i \in Inputs : BeginEdited(c, i)
  \/ \E f \in EditFlows : updateFlowById(f)
  \/ ResolveStart
  \/ LoopHead
  \/ ExecPlainNode
  \/ ExecApiNode
  \/ ExecSendNode
  \/ AfterSend
  \/ ExecHandoffNode
  \/ ExecEndNode
  \/ Advance
  \/ Catch
  \/ CallerFinish

SpecEdit == InitEdit /\ [][NextEdit]_vars

\* two request handlers running concurrently against the same rows
InitStore ==
  InitIdleFlow /\ InitBcastOver({ST_Pending}) /\ InitSend /\ InitRace /\ InitNoVerify /\ InitNoSanitize /\ InitNoReply /\ InitNoOverlap /\ InitRoute

NextRace ==
  \/ \E p \in ProcIds, k \in Callers : Arrive(p, k)
  \/ \E p \in ProcIds : ContactFind(p)
  \/ \E p \in ProcIds : ContactCreate(p)
  \/ \E p \in ProcIds : ContactReread(p)
  \/ \E p \in ProcIds : SessionFind(p)
  \/ \E p \in ProcIds : SessionCreate(p)
  \/ \E p \in ProcIds : SessionReset(p)
  \/ \E p \in ProcIds, o \in RunOutcomes : Run(p, o)
  \/ \E p \in ProcIds : GiveUp(p)

SpecRace == InitStore /\ [][NextRace]_vars

(***************************************************************************)
(* Properties.                                                             *)
(***************************************************************************)
Range(seq) == {seq[i] : i \in DOMAIN seq}
NoRepeat(seq) == Cardinality(Range(seq)) = Len(seq)
Last(seq) == seq[Len(seq)]

\* executeFlow has ended (the caller may not have finished yet)
Ended == pc \in {"returned", "threw", "idle"}

\* C1: within one executeFlow invocation no node is executed twice: a node
\* that was already visited runs none of its side effects (no switch case,
\* no send, no context change), the session is marked Errored and the
\* invocation ends.
C1_NoRevisit ==
  /\ [](/\ NoRepeat(executed)
        /\ NoRepeat([i \in DOMAIN outbox |-> outbox[i].node])
        /\ exit = "loop" => /\ Ended
                            /\ session.status = "Errored"
                            /\ cur \in Range(executed))
  /\ [][(pc = "loop" /\ cur \in Range(executed))
          => /\ executed' = executed
             /\ outbox' = outbox
             /\ ctx' = ctx
             /\ session'.status = "Errored"
             /\ pc' = "returned"]_vars

\* an invocation ended by the loop guard on a flow with an edge cycle
C1_Witness ==
  /\ exit = "loop" /\ pc = "returned"
  /\ flowId = "cycle" /\ cur = "a1" /\ executed = <<"t", "a1", "m1">>

\* C2: no executeFlow invocation executes more than 500 node steps.
C2_AtMostMaxSteps == Len(executed) <= SAFE_MAX_STEPS

\* no request is in the middle of a status callback
BcastQuiescent == \A q \in ReqIds : req[q].pc = "next"

CountsMatchRecipients ==
  /\ broadcast.successCount = CountIn(recipients, BROADCAST_SUCCESS_STATUSES)
  /\ broadcast.failureCount = CountIn(recipients, BROADCAST_FAILURE_STATUSES)

\* C3: after any sequence of status callbacks processed one after another,
\* successCount is the number of recipients whose status is Sent, Delivered
\* or Read and failureCount the number of recipients whose status is Failed.
C3_SequentialCountsMatch == BcastQuiescent => CountsMatchRecipients

\* both requests are through; a Sent recipient failed, a Failed one was read
C3_Witness ==
  /\ \A q \in ReqIds : req[q].pc = "next" /\ req[q].left = 0
  /\ recipients = [r \in RecipientIds |-> IF r = "r1" THEN ST_Failed ELSE ST_Read]
  /\ broadcast.successCount = 1 /\ broadcast.failureCount = 1

\* C4: when two webhook requests reconcile statuses of the same broadcast
\* concurrently, the counts after both have finished equal the counts of
\* recipients by final status.
C4_ConcurrentCountsMatch ==
  (\A q \in ReqIds : req[q].pc = "next" /\ req[q].left = 0)
    => CountsMatchRecipients

\* C5: successCount + failureCount <= totalRecipients in every reachable
\* state, for every sequence and every interleaving of status callbacks.
C5_CountsWithinTotal ==
  broadcast.successCount + broadcast.failureCount <= broadcast.totalRecipients

\* C6: for one top-level sendMessage call the allow-list enrollment is invoked
\* at most once and /messages is POSTed at most twice; the retry after a
\* successful enrollment happens once, with allowListAttempted set, and a
\* second 400/131030 answer on the retry is returned as a failure.
C6_OneEnrollmentTwoPosts ==
  /\ enrolls <= 1
  /\ posts <= 2
  /\ sm.depth <= 1
  /\ sm.depth = 1 <=> sm.allowListAttempted
  /\ sm.allowListAttempted => enrolls = 1 /\ sm.pc # "enroll"
  /\ posts = 2 => sm.allowListAttempted
  /\ (sm.pc = "done" /\ sm.allowListAttempted /\ posts = 2
        /\ sm.resCode = RECIPIENT_NOT_ALLOWED_ERROR_CODE)
       => smResult = Fail(400)

\* the retry was answered 400/131030 again and the call failed
C6_Witness ==
  /\ sm.pc = "done" /\ sm.allowListAttempted
  /\ posts = 2 /\ enrolls = 1
  /\ sm.resCode = RECIPIENT_NOT_ALLOWED_ERROR_CODE
  /\ smResult = Fail(400)

\* the send of the running node failed and the error is on its way out
SendFailure == ~sendResult.success /\ (pc \in {"catch", "threw"} \/
                                        (pc = "idle" /\ exit = "throw"))

\* C7: when the send of a message, options, media or whatsapp_flow node
\* fails, no later node is executed in that invocation, the session is
\* persisted Errored with the current context, and processManualFlowTrigger
\* returns success:false with the builder's status (500 when it has none).
C7_SendFailureAborts ==
  /\ SendFailure =>
       /\ Last(executed) = cur
       /\ NodeType(Flow, cur) \in SendingTypes
       /\ Last(outbox) = [node |-> cur, type |-> Last(outbox).type, ok |-> FALSE]
  /\ (SendFailure /\ exit = "throw") =>
       /\ session.status = "Errored"
       /\ session.context = ctx
  /\ (SendFailure /\ pc = "idle" /\ caller = "manual") =>
       /\ result.set
       /\ ~result.success
       /\ result.status = IF sendResult.status = NoStatus THEN 500
                          ELSE sendResult.status

\* a manual trigger whose text send was answered 401
C7_Witness ==
  /\ SendFailure /\ pc = "idle" /\ caller = "manual"
  /\ flowId = "linear" /\ cur = "m1"
  /\ sendResult = Fail(401)
  /\ result = [success |-> FALSE, status |-> 401, set |-> TRUE]

\* C8: a node whose data violates its type's data contract performs no side
\* effect, is not followed by a successor, and the session ends Errored.
C8_InvalidDataAborts ==
  \A i \in DOMAIN executed :
    ~ValidNodeData(nodeById(Flow, executed[i])) =>
      /\ i = Len(executed)
      /\ \A j \in DOMAIN outbox : outbox[j].node # executed[i]
      /\ Ended => session.status = "Errored"

\* the invocation resumed a session Paused at an options node
ResumedAtOptions ==
  /\ pc \notin {"idle", "start"}
  /\ snap.status = "Paused"
  /\ NodeType(Flow, snap.currentNodeId) = "options"

\* the sourceHandle of the user's selection: opt-<i> or no-match
SelectionHandle ==
  IF inbound.optionIndex # IndexUndefined THEN OptHandle(inbound.optionIndex)
  ELSE H_noMatch

SelectionTarget == edgeForOption(Flow, snap.currentNodeId, SelectionHandle)

\* C9: on resuming a session Paused at an options node, if no edge carries
\* the selected handle, or that edge's target does not exist, the session is
\* persisted as Errored.
C9_MissingResumeEdgeErrors ==
  (ResumedAtOptions /\ pc = "returned"
     /\ (SelectionTarget = None \/ ~HasNode(Flow, SelectionTarget)))
    => session.status = "Errored"

\* C10: a successful options send leaves the session Paused at that options
\* node and ends the invocation; the next invocation for the session starts
\* at the target of the edge of the user's selection, not at a trigger.
C10_OptionsPauseResume ==
  /\ [](/\ exit = "optionsPaused" =>
             /\ Ended
             /\ NodeType(Flow, cur) = "options"
             /\ Last(executed) = cur
             /\ Last(outbox).node = cur /\ Last(outbox).ok
             /\ pc = "returned" => /\ session.status = "Paused"
                                   /\ session.currentNodeId = cur
        /\ (ResumedAtOptions /\ executed # <<>>) =>
             executed[1] = SelectionTarget)
  /\ [][(exit = "optionsPaused" /\ pc = "idle" /\ pc' = "start")
          => /\ snap'.status = "Paused"
             /\ snap'.currentNodeId = cur]_vars

\* the user picked "No" by its button id and the walk went on at mNo
C10_Witness ==
  /\ ResumedAtOptions /\ flowId = "menu"
  /\ inbound.interactiveId = S_no /\ inbound.optionIndex = 1
  /\ executed = <<"mNo">>

\* a step of executeFlow itself (not of its caller)
ExecutorStep == pc \in {"start", "loop", "node", "sent", "advance", "catch"}

\* C11: every session write of the executor that sets status Completed also
\* sets currentNodeId to null, and every write that sets status Errored
\* leaves currentNodeId at its last persisted value.
C11_TerminalWritesAndNode ==
  [][ExecutorStep =>
        /\ session'.status = "Completed" => session'.currentNodeId = NullNode
        /\ session'.status = "Errored" =>
             session'.currentNodeId = session.currentNodeId]_vars

\* the loop guard errored the session of the cyclic flow: the node written
\* at the last loop head is still the current node
C11_Witness ==
  /\ pc = "returned" /\ exit = "loop" /\ flowId = "cycle"
  /\ session.status = "Errored" /\ session.currentNodeId = "m1"

\* the invocation found a non-null currentNodeId that names no node of the
\* definition it runs on
DanglingCurrentNode ==
  /\ pc \notin {"idle", "start"}
  /\ snap.currentNodeId # NullNode
  /\ ~HasNode(Flow, snap.currentNodeId)

\* C12: an invocation that finds the session's non-null currentNodeId to
\* reference no node of the flow's current definition marks the session
\* Errored, executes no node and sends no message.
C12_DanglingNodeErrors ==
  DanglingCurrentNode =>
    /\ executed = <<>>
    /\ outbox = <<>>
    /\ Ended => session.status = "Errored"

\* executeFlow was called for a session that is not Paused with a text that
\* matches no keyword trigger, on a flow without a default trigger
NothingTriggers ==
  /\ pc \notin {"idle", "start"}
  /\ snap.status # "Paused"
  /\ \A i \in DOMAIN Flow.nodes :
       /\ ~triggerMatches(Flow.nodes[i], inbound.text)
       /\ ~triggerIsDefault(Flow.nodes[i])

\* C13: when the session is not Paused, the text matches no keyword trigger
\* and the flow has no default trigger, executeFlow writes nothing and sends
\* nothing: the stored status, currentNodeId and context are those it was
\* called with.
C13_NoTriggerNoWrite ==
  /\ [](NothingTriggers =>
          /\ pc = "returned" /\ exit = "noTrigger"
          /\ executed = <<>>
          /\ outbox = <<>>
          /\ session.status = snap.status
          /\ session.currentNodeId = snap.currentNodeId
          /\ session.context = ctx)
  /\ [][(pc = "start" /\ NothingTriggers') =>
          /\ session' = session
          /\ ctx' = ctx]_vars

\* "zzz" on the flow whose only trigger has keyword "hola"
C13_Witness ==
  /\ NothingTriggers /\ flowId = "linear" /\ inbound.text = S_zzz
  /\ pc = "returned" /\ session.status = "Active"

\* C14: ensureActiveSessionForFlow resets a Completed or Errored session to
\* Active with currentNodeId null and empty context before the next
\* execution, returns a Paused or Active session with status, currentNodeId
\* and context unchanged, and creates a missing session Active with no
\* current node.
C14_EnsureActiveSession ==
  [][(pc = "idle" /\ pc' = "start") =>
       /\ session'.exists
       /\ snap' = [status |-> session'.status,
                   currentNodeId |-> session'.currentNodeId]
       /\ ~session.exists =>
            session'.status = "Active" /\ session'.currentNodeId = NullNode
       /\ (session.exists /\ session.status \in {"Completed", "Errored"}) =>
            /\ session'.status = "Active"
            /\ session'.currentNodeId = NullNode
            /\ session'.context = EmptyContext
       /\ (session.exists /\ session.status \in {"Paused", "Active"}) =>
            session' = session]_vars

\* the second inbound event found the session Errored at a node, with a
\* context, and executeFlow is entered with it reset
C14_Witness ==
  /\ pc = "start" /\ invocations = 1
  /\ logs # <<>> /\ logs[Len(logs)].status = "Error"
  /\ logs[Len(logs)].context # EmptyContext
  /\ session = [exists |-> TRUE, status |-> "Active",
                currentNodeId |-> NullNode, context |-> EmptyContext]

HoldsContact(p) ==
  proc[p].pc \in {"sessionFind", "sessionCreate", "sessionReset", "run"}

\* C16: when two getOrCreateContactForUser calls for the same (userId, phone)
\* run concurrently and no contact exists yet, exactly one Contact row is
\* created and both calls return that contact: the call that loses the insert
\* race reads the row again instead of failing.
C16_ContactRace ==
  /\ Len(contacts) <= 1
  /\ \A p \in ProcIds :
       /\ HoldsContact(p) => contacts # <<>> /\ proc[p].contact = contacts[1].id
       /\ proc[p].pc = "failed" => proc[p].contact # NoRow

\* both calls found no contact; request 1 inserted it, request 2 lost the
\* insert race, read again and holds the same row
C16_Witness ==
  /\ Len(contacts) = 1
  /\ proc[1].calls = 0 /\ proc[2].calls = 0
  /\ HoldsContact(1) /\ HoldsContact(2)
  /\ proc[2].reread
  /\ proc[1].contact = 1 /\ proc[2].contact = 1

\* the trigger nodes of the flow (their positions) whose keyword is not the
\* default one and equals the normalized text, is contained in it, or equals
\* one of its whitespace-separated tokens
KeywordTriggers ==
  LET text == normalizeTrigger(inbound.text)
  IN {i \in DOMAIN Flow.nodes :
        LET kw == normalizeTrigger(Flow.nodes[i].data.keyword)
        IN /\ Flow.nodes[i].type = "trigger"
           /\ kw # Null /\ kw # DEFAULT_TRIGGER_KEYWORD
           /\ text # Null
           /\ \/ text = kw
              \/ includes(text, kw)
              \/ kw \in splitParts(text, <<>>)}

DefaultTriggers ==
  {i \in DOMAIN Flow.nodes :
     /\ Flow.nodes[i].type = "trigger"
     /\ normalizeTrigger(Flow.nodes[i].data.keyword) = DEFAULT_TRIGGER_KEYWORD}

Least(S) == CHOOSE i \in S : \A j \in S : i <= j

\* C19: when executeFlow starts a new walk, the start node is the first
\* trigger node in definition order whose non-default keyword matches the
\* normalized inbound text; only if none matches it is the first default
\* trigger; a default trigger placed before a matching keyword trigger does
\* not pre-empt it.
C19_TriggerSelection ==
  [][(pc = "start" /\ ~(snap.currentNodeId # NullNode /\ snap.status = "Paused")) =>
       /\ KeywordTriggers # {} =>
            cur' = Flow.nodes[Least(KeywordTriggers)].id
       /\ (KeywordTriggers = {} /\ DefaultTriggers # {}) =>
            cur' = Flow.nodes[Least(DefaultTriggers)].id
       /\ (KeywordTriggers = {} /\ DefaultTriggers = {}) => cur' = None
    ]_vars

\* "Hola" starts at the keyword trigger t2 although the default trigger t0
\* comes first in the definition and t3 matches as well
C19_Witness ==
  /\ flowId = "greeting" /\ pc = "loop" /\ steps = 0
  /\ inbound.text = S_Hola
  /\ cur = "t2"
  /\ Least(DefaultTriggers) < Least(KeywordTriggers)
  /\ Cardinality(KeywordTriggers) = 2

\* the contact's most recently updated Active or Paused session rows
MostRecentOpen ==
  {i \in DOMAIN contactSessions :
     /\ contactSessions[i].status \in {"Active", "Paused"}
     /\ \A j \in DOMAIN contactSessions :
          contactSessions[j].status \in {"Active", "Paused"} =>
            contactSessions[j].updatedAt <= contactSessions[i].updatedAt}

\* the step in which the handler settles on a flow (or on none)
FlowChosen == route.pc = "select" /\ route'.pc # "select"

ClaimedScore(flow, context) ==
  LET t == normalizeTrigger(flow.trigger)
      bonus(v, n) == IF normalizeTrigger(v) = t THEN n ELSE 0
  IN IF matchesTrigger(flow, context)
     THEN 6 + bonus(context.fullText, 2) + bonus(context.interactiveTitle, 1)
            + bonus(context.interactiveId, 1)
     ELSE IF isDefaultTrigger(flow) THEN 1 ELSE 0

\* the flows of the candidate list that score above 0
Scoring == {i \in DOMAIN tenantFlows : ClaimedScore(tenantFlows[i], matchContext) > 0}

\* C18: findBestMatchingFlow returns, among the candidates that score above 0,
\* one of maximal score, and among those of maximal score one of greatest
\* updatedAt; a default-triggered flow is returned only when no candidate's
\* trigger matches; when no candidate scores above 0 the first candidate of the
\* list is returned.
C18_BestMatchingFlow ==
  route.pc = "matched" =>
    LET r == route.best
        cs(i) == ClaimedScore(tenantFlows[i], matchContext)
    IN /\ Scoring # {} =>
            /\ r \in Scoring
            /\ \A j \in Scoring :
                 \/ cs(j) < cs(r)
                 \/ cs(j) = cs(r) /\ tenantFlows[j].updatedAt <= tenantFlows[r].updatedAt
       /\ (Scoring # {} /\ r # NoFlow /\ isDefaultTrigger(tenantFlows[r])) =>
            \A j \in DOMAIN tenantFlows : ~matchesTrigger(tenantFlows[j], matchContext)
       /\ (Scoring = {} /\ tenantFlows # <<>>) => r = tenantFlows[1].id

\* a later-updated flow of the same top score wins over an earlier one that
\* comes first in the list, with a default flow among the candidates
C18_Witness ==
  /\ route.pc = "matched"
  /\ \E i, j, d \in Scoring :
       /\ i < j
       /\ ClaimedScore(tenantFlows[i], matchContext)
            = ClaimedScore(tenantFlows[j], matchContext)
       /\ tenantFlows[i].updatedAt < tenantFlows[j].updatedAt
       /\ isDefaultTrigger(tenantFlows[d])
       /\ route.best = j

\* the flow engine on the flows that hold several trigger nodes, api and
\* handoff nodes, and conditions with rejected expressions
InitTriggers ==
  /\ InitFlowOver({"greeting", "branch", "guarded", "oneSided"})
  /\ InitBcastOver({ST_Pending}) /\ InitSend /\ InitRace /\ InitNoVerify /\ InitNoSanitize /\ InitNoReply /\ InitNoOverlap /\ InitRoute

SpecTriggers == InitTriggers /\ [][Next]_vars

\* manual triggers whose variables carry history fields just below and just
\* above the limit
HistoryFill(n) ==
  [i \in 1..n |-> [direction |-> "in", type |-> "text", text |-> S_k]]

VariableSets ==
  {NoVariables}
    \cup {[set |-> TRUE, history |-> HistoryFill(n),
           inputHistory |-> [i \in 1..n |-> S_k]] :
            n \in {HISTORY_LIMIT - 1, HISTORY_LIMIT + 1}}

BeginManual(input, variables) ==
  invocations < MaxInvocations /\ BeginWith("manual", input, variables)

NextHistory ==
  \/ \E i \in Inputs, v \in VariableSets : BeginManual(i, v)
  \/ ResolveStart
  \/ LoopHead
  \/ ExecPlainNode
  \/ ExecApiNode
  \/ ExecSendNode
  \/ AfterSend
  \/ ExecHandoffNode
  \/ ExecEndNode
  \/ Advance
  \/ Catch
  \/ CallerFinish

SpecHistory == InitTriggers /\ [][NextHistory]_vars

\* findBestMatchingFlow over bounded candidate lists
InitMatching ==
  InitIdleFlow /\ InitBcastOver({ST_Pending}) /\ InitSend /\ InitRace /\ InitNoVerify /\ InitNoSanitize /\ InitNoReply /\ InitNoOverlap /\ InitMatch

NextMatch ==
  \/ Match

SpecMatch == InitMatching /\ [][NextMatch]_vars

\* inbound messages routed one after another, flows edited in between
NextRoute ==
  \/ \E m \in Inbounds : Receive(m)
  \/ SelectFlow
  \/ EnsureSession
  \/ \E o \in ExecuteOutcomes : Execute(o)
  \/ \E f \in DOMAIN tenantFlows, st \in {F_Active, F_Inactive} :
       updateFlowStatus(f, st)
  \/ \E f \in DOMAIN tenantFlows, ch \in {CH_whatsapp, CH_sms} :
       updateFlowChannel(f, ch)

SpecRoute == InitStore /\ [][NextRoute]_vars

\* one webhook request over every bounded payload
InitWebhook ==
  /\ InitIdleFlow /\ InitBcastOver({ST_Pending}) /\ InitSend /\ InitRace /\ InitNoVerify /\ InitNoSanitize /\ InitNoReply /\ InitNoOverlap
  /\ tenantFlows = TenantFlows
  /\ contactSessions = <<>>
  /\ matchContext = CHOOSE m \in Inbounds : m.fullText = S_zzz
  /\ route = IdleRoute
  /\ InitHook

NextWebhook ==
  \/ PostWebhook
  \/ \E u \in UserLookups : ProcessValue(u)
  \/ \E o \in MessageOutcomes : HandleMessage(o)
  \/ Respond

SpecWebhook == InitWebhook /\ [][NextWebhook]_vars

\* every message of change value v has been through the message loop
AllHandled(v) ==
  \A m \in 1..changeValues[v].messages :
    \E i \in DOMAIN hook.handled :
      hook.handled[i].val = v /\ hook.handled[i].msg = m

\* C20: a failure while handling one inbound message (an exception out of
\* handleIncomingWhatsappMessage, or a flow execution error that marks the
\* session Errored) does not keep the remaining messages of the same change
\* value nor the later change values from being processed, and the request is
\* still answered with 200.
C20_MessageFailureContained ==
  /\ [](hook.pc # "messages" =>
          \A i \in DOMAIN hook.handled : AllHandled(hook.handled[i].val))
  /\ [](hook.pc = "done" =>
          /\ hook.cause # "message"
          /\ hook.cause = None => hook.response = 200
          /\ hook.response = 200 => hook.val = Len(changeValues) + 1)
  /\ [][hook.pc = "messages" =>
          /\ hook'.pc \in {"messages", "values"}
          /\ Len(hook'.handled) = Len(hook.handled) + 1]_vars

\* answered 200 after a message whose handling threw and one whose flow
\* execution marked the session Errored, each followed by a handled message,
\* the last of them in a later change value
C20_Witness ==
  /\ hook.pc = "done" /\ hook.response = 200
  /\ \E i, j, k \in DOMAIN hook.handled :
       /\ i < j /\ j < k
       /\ hook.handled[i].threw
       /\ hook.handled[j].errored
       /\ hook.handled[j].val = hook.handled[i].val
       /\ hook.handled[k].val > hook.handled[j].val

\* the targets of the outgoing edges of the node, in definition order
OutgoingTargets(id) ==
  LET RECURSIVE from(_)
      from(i) ==
        IF i > Len(Flow.edges) THEN <<>>
        ELSE (IF Flow.edges[i].source = id THEN <<Flow.edges[i].target>>
              ELSE <<>>) \o from(i + 1)
  IN from(1)

\* C21: an api node never errors the session: whether its HTTP call answers,
\* fails or times out, a value is stored at the assignTo path (apiResult by
\* default), {error: "API call failed"} on failure, and execution continues
\* with the node's first outgoing edge.
C21_ApiNodeNeverErrors ==
  [][/\ (pc = "node" /\ CurNode.type = "api") =>
          /\ pc' = "advance"
          /\ session' = session
          /\ ctx'.vars[apiAssignTo(CurNode)] \in {API_OK, API_FAILED}
     /\ (pc = "advance" /\ CurNode.type = "api"
           /\ ctx.vars[apiAssignTo(CurNode)] = API_FAILED
           /\ OutgoingTargets(cur) # <<>>
           /\ HasNode(Flow, OutgoingTargets(cur)[1])) =>
          /\ cur' = OutgoingTargets(cur)[1]
          /\ pc' = "loop"
          /\ session'.status = "Active"
          /\ session'.context = ctx
    ]_vars

\* the walk has moved on from the api node to its successor after a failed call
C21_Witness ==
  /\ flowId = "branch" /\ pc = "loop" /\ cur = "h1"
  /\ Last(executed) = "api1"
  /\ ctx.vars[API_KEY] = API_FAILED
  /\ session.status = "Active"

\* the condition node under execution has an expression with a rejected token
RejectedCondition ==
  /\ pc = "node"
  /\ CurNode.type = "condition"
  /\ \E i \in DOMAIN CurNode.data.expression :
       CurNode.data.expression[i] \in Range(BlockedTokenList)

\* the targets of the node's edges with the given sourceHandle
HandleTargets(id, handle) ==
  {Flow.edges[i].target :
     i \in {j \in DOMAIN Flow.edges :
              Flow.edges[j].source = id /\ Flow.edges[j].sourceHandle = handle}}

\* C22: a condition node whose expression contains a blocked token evaluates
\* to false: the executor follows the edge whose sourceHandle is "false",
\* never the "true" edge, and the session is not marked Errored because of the
\* rejected expression.
C22_BlockedExpressionIsFalse ==
  [][RejectedCondition =>
       /\ pc' = "advance"
       /\ session' = session
       /\ nextNodeId' \notin HandleTargets(cur, H_true)
       /\ HandleTargets(cur, H_false) # {} =>
            nextNodeId' \in HandleTargets(cur, H_false)
    ]_vars

\* the walk went through every rejected expression along the "false" edges and
\* completed at the end node, the message behind the "true" edges never sent
C22_Witness ==
  /\ flowId = "guarded" /\ pc = "returned" /\ exit = "end"
  /\ session.status = "Completed"
  /\ \A i \in 1..Len(BlockedTokenList) : GuardId(i) \in Range(executed)
  /\ outbox = <<>>

\* the node is a media node with neither id nor url
MediaWithoutSource(n) ==
  n.type = "media" /\ ~Truthy(n.data.id) /\ ~Truthy(n.data.url)

C24_HistoriesCapped ==
  (pc \in {"returned", "threw"}) =>
    /\ Len(session.context.history) <= HISTORY_LIMIT
    /\ Len(session.context.inputHistory) <= HISTORY_LIMIT

(***************************************************************************)
(* C25: every inbound message or manual trigger that reached the executor *)
(* appends exactly one Log entry; the entry is written once the executor  *)
(* has returned or thrown, its status is "In Progress" for a session      *)
(* stored as Active or Paused, "Completed" for Completed and "Error" for  *)
(* Errored, and its context is the stored context.                        *)
(***************************************************************************)
LoggedStatusOf(status) ==
  CASE status \in {"Active", "Paused"} -> "In Progress"
    [] status = "Completed" -> "Completed"
    [] status = "Errored" -> "Error"
    [] OTHER -> None

C25_OneSnapshotPerInbound ==
  [][ /\ Len(logs') = invocations'
      /\ (logs' # logs) =>
           /\ pc \in {"returned", "threw"}
           /\ pc' = "idle"
           /\ Len(logs') = Len(logs) + 1
           /\ SubSeq(logs', 1, Len(logs)) = logs
           /\ Last(logs').status = LoggedStatusOf(session'.status)
           /\ Last(logs').context = session'.context
      /\ (pc \in {"returned", "threw"}) => logs' # logs ]_vars

C25_Witness ==
  /\ pc = "idle"
  /\ Len(logs) = 2
  /\ logs[1].status = "In Progress"
  /\ logs[2].status = "Error"
  /\ session.status = "Errored"
  /\ logs[2].context = session.context

(***************************************************************************)
(* C26: an invocation that has ended executed at most min(number of       *)
(* nodes of the flow, 500) nodes, and left the session stored as Paused,  *)
(* Completed or Errored, or untouched when no trigger matched.            *)
(***************************************************************************)
StepBound == IF Len(Flow.nodes) < SAFE_MAX_STEPS THEN Len(Flow.nodes)
             ELSE SAFE_MAX_STEPS

SettledOrUntouched ==
  \/ session.status \in {"Paused", "Completed", "Errored"}
  \/ /\ exit = "noTrigger"
     /\ session.status = snap.status
     /\ session.currentNodeId = snap.currentNodeId
     /\ session.context = ctx

C26_BoundedAndSettled ==
  (pc \in {"returned", "threw"}) =>
    /\ Len(executed) <= StepBound
    /\ SettledOrUntouched

\* the subscription handshake of a process started with any environment
InitVerify ==
  /\ InitIdleFlow /\ InitBcastOver({ST_Pending}) /\ InitSend /\ InitRace
  /\ InitRoute
  /\ env \in Environments
  /\ verification = IdleVerification
  /\ InitNoSanitize /\ InitNoReply /\ InitNoOverlap

NextVerify ==
  \/ \E m \in QueryModes, t \in QueryTokens, c \in QueryChallenges :
       GetWebhook(m, t, c)

SpecVerify == InitVerify /\ [][NextVerify]_vars

\* the request carries the configured verify token and a string challenge
TokenMatches ==
  /\ VERIFY_TOKEN # <<>>
  /\ strictEquals(verification.query.token, VERIFY_TOKEN)
  /\ verification.query.challenge.type = "string"

ChallengeReturned ==
  /\ verification.response.status = 200
  /\ verification.response.body = verification.query.challenge.value

ChallengeRefused ==
  /\ verification.response.status \in {403, 400}
  /\ verification.query.challenge.type = "string" =>
       verification.response.body # verification.query.challenge.value

\* C27 as stated: GET /meta/webhook answers 200 with the challenge whenever
\* hub.verify_token equals the configured verify token and hub.challenge is
\* a string, and answers 403 or 400 without the challenge in every other
\* case.
C27_ChallengeOnTokenMatch ==
  verification.answered =>
    IF TokenMatches THEN ChallengeReturned ELSE ChallengeRefused

\* C27, amended: GET /meta/webhook answers 200 with the challenge exactly
\* when hub.mode is "subscribe", hub.challenge is a string, a verify token
\* is configured and hub.verify_token equals it; with mode "subscribe" and
\* a string challenge but another token or no configured token it answers
\* 403, in every other case 400, and neither returns the challenge.
C27_ChallengeOnSubscribeMatch ==
  verification.answered =>
    LET subscribing ==
          /\ strictEquals(verification.query.mode, S_subscribe)
          /\ verification.query.challenge.type = "string"
    IN /\ (subscribing /\ TokenMatches) => ChallengeReturned
       /\ ~(subscribing /\ TokenMatches) => ChallengeRefused
       /\ (subscribing /\ ~TokenMatches) => verification.response.status = 403
       /\ ~subscribing => verification.response.status = 400

\* the token set by the second environment variable is presented with a
\* challenge and the challenge comes back
C27_Witness ==
  /\ verification.answered
  /\ IsNullish(env.META_VERIFY_TOKEN) /\ env.WHATSAPP_VERIFY_TOKEN = S_v
  /\ env.VERIFY_TOKEN = S_k
  /\ verification.query.token = QString(S_v)
  /\ verification.query.challenge = QString(S_hi)
  /\ verification.response = [status |-> 200, body |-> S_hi]

\* a definition of the bounded input set, sanitized and sanitized again
InitSanitize ==
  /\ InitIdleFlow /\ InitBcastOver({ST_Pending}) /\ InitSend /\ InitRace
  /\ InitNoVerify /\ InitRoute /\ InitNoReply /\ InitNoOverlap
  /\ sanitizing \in [stage : {"input"}, input : DefinitionInputs,
                     once : {NoDefinition}, twice : {NoDefinition}]

NextSanitize ==
  \/ Sanitize
  \/ SanitizeAgain

SpecSanitize == InitSanitize /\ [][NextSanitize]_vars

\* C28: for every input sanitizeFlowDefinition accepts, sanitizing the
\* result again yields an equal definition: the same nodes with the same
\* ids, types, positions, data and other properties, and the same edges
\* and handles.
C28_SanitizeIdempotent ==
  (sanitizing.stage = "twice") => sanitizing.twice = sanitizing.once

\* a node whose coordinate came as text and whose data was an array was
\* normalised by the first pass and left as it was by the second
C28_Witness ==
  /\ sanitizing.stage = "twice"
  /\ sanitizing.input.t = "object"
  /\ sanitizing.input.nodes.t = "list"
  /\ Len(sanitizing.input.nodes.items) = 1
  /\ sanitizing.input.nodes.items[1].position =
       JPosition(JString(S_pad12), J_undefined, JNumber(3))
  /\ sanitizing.input.nodes.items[1].data = J_array
  /\ sanitizing.once.nodes.items[1].position =
       JPosition(JNumber(12), JNumber(0), J_undefined)
  /\ sanitizing.once.nodes.items[1].data = JObject(0)
  /\ sanitizing.twice = sanitizing.once

\* the in-memory context carries the inbound message of this invocation
InboundRecorded ==
  /\ ctx.messageCount >= 1
  /\ ctx.inputHistory # <<>>
  /\ Last(ctx.inputHistory) = inbound.text

\* C29: when an invocation that recorded the inbound message has returned
\* or thrown, the stored context is the executor's in-memory context, with
\* the inbound history entry and the incremented messageCount in it.
C29_StoredContextCurrent ==
  (pc \in {"returned", "threw"} /\ InboundRecorded) =>
    /\ session.context = ctx
    /\ session.context.messageCount = ctx.messageCount
    /\ session.context.inputHistory = ctx.inputHistory

\* the sourceHandle the condition node at cur selects with the context it has
ConditionHandle ==
  IF safeEvalBool(IF IsNullish(CurNode.data.expression) THEN <<"false">>
                  ELSE CurNode.data.expression, ctx) = "true"
  THEN H_true ELSE H_false

\* the node just executed yields no next node
YieldsNoNext ==
  /\ pc = "advance"
  /\ IF CurNode.type = "condition"
     THEN HandleTargets(cur, ConditionHandle) = {}
     ELSE /\ nextNodeId = None
          /\ ~\E i \in DOMAIN Flow.edges : Flow.edges[i].source = cur

\* C30: when the executed node yields no next node (a node other than a
\* condition without outgoing edge, or a condition node without an edge whose
\* sourceHandle is its result), the session is persisted as Completed with
\* currentNodeId null and the context, the invocation returns and nothing
\* more is sent; a condition node only ever continues along an edge whose
\* sourceHandle is its result, never along its first outgoing edge.
C30_NoNextCompletes ==
  [][ /\ YieldsNoNext =>
           /\ session'.status = "Completed"
           /\ session'.currentNodeId = NullNode
           /\ session'.context = ctx
           /\ pc' = "returned"
           /\ outbox' = outbox
      /\ (pc = "advance" /\ CurNode.type = "condition" /\ pc' = "loop") =>
           cur' \in HandleTargets(cur, ConditionHandle)
      /\ (pc = "returned") => outbox' = outbox ]_vars

\* the condition that came out false had a "true" edge and an edge without
\* handle, and the walk ended at it without a send
C30_Witness ==
  /\ flowId = "oneSided" /\ pc = "returned" /\ exit = "noNext"
  /\ cur = "cF" /\ executed = <<"tA", "cF">>
  /\ OutgoingTargets("cF") = <<"mA", "mA">>
  /\ session.status = "Completed" /\ session.currentNodeId = NullNode
  /\ outbox = <<>>

\* what the first allow-list endpoint answered, "none" before it has
FirstEnrollAnswer ==
  IF sm.enrollAnswers = <<>> THEN [kind |-> "none", status |-> NoStatus,
                                   message |-> "none"]
  ELSE sm.enrollAnswers[1]

NoEnrollmentSucceeded ==
  /\ sm.enrollAnswers # <<>>
  /\ \A i \in DOMAIN sm.enrollAnswers :
       afterEnrollAnswer(sm.enrollAnswers[i]) # "success"

\* an enrollment that did not succeed is not followed by a second send
NotRetried == NoEnrollmentSucceeded => posts = 1 /\ ~sm.allowListAttempted

\* C31 as stated: the second endpoint is contacted only after the first
\* answered 400 or 404 with a message containing "unknown path components"
\* or "unsupported post request"; any other failure of the first endpoint
\* ends the enrollment without a second request, and the send is then not
\* retried.
C31_SecondEndpointOnPathRejection ==
  /\ Len(enrollPosts) = 2 =>
       /\ FirstEnrollAnswer.kind = "response"
       /\ FirstEnrollAnswer.status \in {400, 404}
       /\ FirstEnrollAnswer.message \in FallbackMessages
  /\ NotRetried

\* C31, amended: the second endpoint is contacted after, and only after, the
\* first either answered 400 or 404 with such a message or gave no answer
\* because the request failed before the deadline; a different error answer of the
\* first endpoint, or the deadline, ends the enrollment without a second
\* request; an enrollment that did not succeed is never followed by a retry
\* of the send.
C31_SecondEndpointOnRejectionOrThrow ==
  /\ Len(enrollPosts) = Len(sm.enrollAnswers)
  /\ Len(enrollPosts) = 2 =>
       /\ enrollPosts = candidatePaths
       /\ \/ /\ FirstEnrollAnswer.kind = "response"
             /\ FirstEnrollAnswer.status \in {400, 404}
             /\ FirstEnrollAnswer.message \in FallbackMessages
          \/ FirstEnrollAnswer.kind = "network"
  /\ FirstEnrollAnswer.kind = "network" =>
       \/ Len(enrollPosts) = 2
       \/ sm.pc = "enroll" /\ sm.path = 2
  /\ ( \/ FirstEnrollAnswer.kind = "abort"
       \/ /\ FirstEnrollAnswer.kind = "response"
          /\ FirstEnrollAnswer.status # 200
          /\ ~( FirstEnrollAnswer.status \in {400, 404}
                /\ FirstEnrollAnswer.message \in FallbackMessages) )
       => Len(enrollPosts) = 1 /\ sm.pc \in {"done", "idle"}
  /\ NotRetried

\* the first endpoint could not be reached, the second enrolled the number
\* and the send was made again
C31_Witness ==
  /\ Len(enrollPosts) = 2 /\ Len(sm.enrollAnswers) = 2
  /\ sm.enrollAnswers[1].kind = "network"
  /\ sm.enrollAnswers[2].status = 200
  /\ sm.allowListAttempted /\ posts = 2

\* manual triggers of one client, valid or not, next to the webhook messages
\* of the same phone for the same flow
NextManual ==
  \/ \E r \in ManualRequests : TriggerManual(2, r)
  \/ Arrive(1, "webhook")
  \/ \E p \in ProcIds : ContactFind(p)
  \/ \E p \in ProcIds : ContactCreate(p)
  \/ \E p \in ProcIds : ContactReread(p)
  \/ \E p \in ProcIds : SessionFind(p)
  \/ \E p \in ProcIds : SessionCreate(p)
  \/ \E p \in ProcIds : SessionReset(p)
  \/ \E p \in ProcIds, o \in RunOutcomes : Run(p, o)
  \/ \E p \in ProcIds : GiveUp(p)

SpecManual == InitStore /\ [][NextManual]_vars

\* the statuses the claim gives for what is wrong with a request
FaultStatuses(options) ==
  (IF ~options.flow.exists THEN {404} ELSE {})
    \cup (IF options.flow.exists /\ ~IsNullish(options.flow.channel)
             /\ trim(options.flow.channel) # <<>>
             /\ toLowerCase(trim(options.flow.channel)) # toLowerCase(CH_whatsapp)
          THEN {409} ELSE {})
    \cup (IF options.flow.exists /\ options.flow.status # "Active" THEN {409} ELSE {})
    \cup (IF IsNullish(options.from)
             \/ \A i \in DOMAIN options.from : DigitValue(options.from[i]) < 0
          THEN {400} ELSE {})
    \cup (IF \A v \in {options.message, options.rawText, options.interactiveTitle,
                       options.interactiveId} : IsNullish(v) \/ trim(v) = <<>>
          THEN {400} ELSE {})

\* C32: a manual trigger for a flow that does not exist (404), is not a
\* WhatsApp flow (409) or is not Active (409), or with a phone without
\* digits or with no usable text (400), returns success false with that
\* status, creates or modifies no contact or session, and does not reach
\* the executor, so that nothing is logged or sent.
C32_RejectedTriggerTouchesNothing ==
  [][ \A p \in ProcIds :
        ( /\ proc[p].pc = "idle"
          /\ proc'[p] # proc[p]
          /\ proc'[p].request.given
          /\ FaultStatuses(proc'[p].request) # {} ) =>
          /\ proc'[p].pc = "idle"
          /\ proc'[p].response.set /\ ~proc'[p].response.success
          /\ proc'[p].response.status \in FaultStatuses(proc'[p].request)
          /\ ~proc'[p].executed
          /\ contacts' = contacts /\ sessions' = sessions ]_vars

\* a trigger for an Inactive flow was answered 409 while the other request
\* had created the contact and the session
C32_Witness ==
  /\ proc[2].pc = "idle" /\ proc[2].request.given
  /\ proc[2].request.flow.exists /\ proc[2].request.flow.status = F_Inactive
  /\ proc[2].response = [success |-> FALSE, status |-> 409, set |-> TRUE]
  /\ ~proc[2].executed
  /\ Len(contacts) = 1 /\ Len(sessions) = 1

\* the sends of the invocation that succeeded, in the order they were made
SuccessfulSends ==
  LET RECURSIVE ok(_)
      ok(i) == IF i > Len(outbox) THEN <<>>
               ELSE (IF outbox[i].ok THEN <<outbox[i]>> ELSE <<>>) \o ok(i + 1)
  IN ok(1)

\* the invocation is over and had recorded its inbound message
EndedAfterRecording ==
  /\ pc \in {"returned", "threw"}
  /\ exit \notin {"noTrigger", "pausedMissing", "resumeTargetMissing"}

\* C33: within one invocation the history gains first the inbound entry and
\* then exactly one outbound entry per successful send, in the order the
\* nodes were visited; a send that fails adds no entry.  (The entries the
\* invocation added are the last ones of the history.)
C33_HistoryFollowsSends ==
  EndedAfterRecording =>
    LET h == ctx.history
        k == Len(SuccessfulSends)
    IN /\ Len(h) >= k + 1
       /\ h[Len(h) - k].direction = "in"
       /\ h[Len(h) - k].text = inbound.text
       /\ \A j \in 1..k :
            /\ h[Len(h) - k + j].direction = "out"
            /\ h[Len(h) - k + j].type = SuccessfulSends[j].type
            /\ h[Len(h) - k + j].text =
                 outboundText(nodeById(Flow, SuccessfulSends[j].node), ctx)

\* the greeting went out and the media message after it failed: the history
\* ends with the inbound entry and the one entry of the greeting
C33_Witness ==
  /\ flowId = "greeting" /\ pc = "threw"
  /\ Len(outbox) = 2 /\ outbox[1].ok /\ ~outbox[2].ok
  /\ executed = <<"t0", "m0", "mx">>
  /\ Len(ctx.history) = HISTORY_LIMIT
  /\ ctx.history[HISTORY_LIMIT].direction = "out"
  /\ ctx.history[HISTORY_LIMIT - 1].direction = "in"

\* the session is stored as Paused at a handoff node of the flow
PausedAtHandoff(s) ==
  /\ s.status = "Paused"
  /\ HasNode(Flow, s.currentNodeId)
  /\ NodeType(Flow, s.currentNodeId) = "handoff"

\* C34: a session Paused at a handoff node stays Paused at that node
\* whatever arrives: no step changes the stored status or node, and an
\* invocation that begins with it resumes at the handoff node, executes it
\* and nothing else, sends nothing and returns.
C34_HandoffHolds ==
  [][ /\ PausedAtHandoff(session) =>
           /\ session'.status = "Paused"
           /\ session'.currentNodeId = session.currentNodeId
      /\ (PausedAtHandoff(snap) /\ pc' \notin {"idle", "start"}) =>
           /\ cur' = snap.currentNodeId
           /\ outbox' = <<>>
           /\ pc' # "threw"
           /\ \A i \in DOMAIN executed' : executed'[i] = snap.currentNodeId
      /\ (PausedAtHandoff(snap) /\ pc' = "returned") =>
           /\ exit' = "handoff"
           /\ executed' = <<snap.currentNodeId>> ]_vars

\* a later message found the session at h1 and left it there
C34_Witness ==
  /\ flowId = "branch" /\ pc = "returned" /\ exit = "handoff"
  /\ snap = [status |-> "Paused", currentNodeId |-> "h1"]
  /\ executed = <<"h1">> /\ outbox = <<>>
  /\ session.status = "Paused" /\ session.currentNodeId = "h1"
  /\ invocations >= 1

\* the ways executeFlow gives up on a walk outside its catch block
ErroredReturns ==
  {"loop", "guard", "pausedMissing", "resumeTargetMissing", "nextMissing"}

\* C35: an invocation that ends by loop detection, by the step guard or on
\* a missing paused or next node stores the session as Errored and returns
\* without raising; processManualFlowTrigger then reports success for the
\* call although the stored status is Errored.
C35_ErroredReturnReportsSuccess ==
  exit \in ErroredReturns =>
    /\ pc \in {"returned", "idle"}
    /\ session.status = "Errored"
    /\ (pc = "idle" /\ caller = "manual") =>
         /\ result.set /\ result.success
         /\ Last(logs).status = "Error"

\* a manual trigger ran into the cycle and was answered with success
C35_Witness ==
  /\ exit = "loop" /\ pc = "idle" /\ caller = "manual"
  /\ result.set /\ result.success
  /\ session.status = "Errored"

\* an options node with any of the option lists
InitReply ==
  /\ InitIdleFlow /\ InitBcastOver({ST_Pending}) /\ InitSend /\ InitRace
  /\ InitNoVerify /\ InitNoSanitize /\ InitRoute /\ InitNoOverlap
  /\ buttons \in [stage : {"node"}, options : OptionLists, emitted : {<<>>},
                  tapped : {-1}, reply : {NoButtons.reply}, idx : {-1},
                  handle : {Null}]

NextReply ==
  \/ SendButtons
  \/ \E i \in 0..(MaxButtons - 1) : TapButton(i)
  \/ ResumeAtButtons

SpecReply == InitReply /\ [][NextReply]_vars

\* the ids sendMessage derives for the first three options differ pairwise
DistinctButtonIds ==
  \A i, j \in DOMAIN buttons.emitted :
    i # j => buttons.emitted[i] # buttons.emitted[j]

\* C36: for an options node whose first three options have pairwise
\* distinct derived ids, the id emitted for option i, received back as the
\* reply id, selects option i and the handle opt-<i>.
C36_ButtonIdRoundTrip ==
  (buttons.stage = "resumed" /\ DistinctButtonIds) =>
    /\ buttons.idx = buttons.tapped
    /\ buttons.handle = OptHandle(buttons.tapped)

\* C37: whenever an invocation of the executor leaves the session stored
\* as Paused, the stored currentNodeId is the id of an options node or of a
\* handoff node of the flow's definition.
C37_PausedAtOptionsOrHandoff ==
  (pc \in {"returned", "threw"} /\ session.status = "Paused") =>
    /\ HasNode(Flow, session.currentNodeId)
    /\ NodeType(Flow, session.currentNodeId) \in {"options", "handoff"}

\* the menu was sent again after an answer, the session waits at o1 again
C37_Witness ==
  /\ pc = "returned" /\ session.status = "Paused"
  /\ invocations >= 1
  /\ HasNode(Flow, session.currentNodeId)
  /\ NodeType(Flow, session.currentNodeId) = "options"
  /\ Last(executed) = session.currentNodeId

\* the contact has an Active session on the flow; two requests follow it
InitOverlap ==
  /\ InitFlowOver({"linear", "menu", "dangling"})
  /\ InitBcastOver({ST_Pending}) /\ InitSend /\ InitRace /\ InitNoVerify
  /\ InitNoSanitize /\ InitNoReply /\ InitRoute
  /\ stored = ensureActiveSessionForFlow(NoSession)
  /\ walk = [p \in WalkIds |-> IdleWalk]

NextOverlap ==
  \/ \E p \in WalkIds, i \in Inputs : WalkFind(p, [NoInbound EXCEPT
                                                    !.text = i.text,
                                                    !.interactiveId = i.interactiveId])
  \/ \E p \in WalkIds : WalkEnsure(p)
  \/ \E p \in WalkIds : WalkResolve(p)
  \/ \E p \in WalkIds : WalkHead(p)
  \/ \E p \in WalkIds, sent \in BOOLEAN : WalkNode(p, sent)
  \/ \E p \in WalkIds : WalkAdvance(p)
  \/ \E p \in WalkIds : WalkCatch(p)

SpecOverlap == InitOverlap /\ [][NextOverlap]_vars

\* C38: in every reachable state, whatever the interleaving of two
\* invocations on one session, a session stored as Completed has a null
\* currentNodeId.
C38_CompletedHasNoNode ==
  stored.status = "Completed" => stored.currentNodeId = NullNode

\* request p is about to insert the session row that another request has
\* inserted since p looked for it
LosesSessionRace(p) ==
  proc[p].pc = "sessionCreate" /\ uniqueViolation(sessions)

\* request p has given up after its session insert was rejected
LostSessionRace(p) ==
  proc[p].pc = "failed" /\ proc[p].contact # NoRow

\* C39: of two requests racing to create the session of one contact and
\* flow, the one whose insert is rejected does not execute the flow: no
\* session row is written, nothing is sent or logged, the webhook request
\* just returns and the manual trigger answers success:false with 500.
C39_RaceLoserDoesNotExecute ==
  [][\A p \in ProcIds :
       /\ (LosesSessionRace(p) /\ proc'[p] # proc[p]) =>
            /\ LostSessionRace(p)'
            /\ ~proc'[p].executed
            /\ UNCHANGED <<sessions, logs, outbox>>
       /\ (LostSessionRace(p) /\ proc'[p] # proc[p]) =>
            /\ proc'[p].pc = "idle"
            /\ ~proc'[p].executed
            /\ UNCHANGED <<sessions, logs, outbox>>
            /\ proc'[p].response =
                 IF proc[p].kind = "manual"
                 THEN [success |-> FALSE, status |-> 500, set |-> TRUE]
                 ELSE NoResult]_vars

\* a manual trigger lost the race against a webhook request and was
\* answered with 500; the webhook request's session is the only row
C39_Witness ==
  \E p, q \in ProcIds :
    /\ p # q
    /\ proc[p].kind = "manual" /\ proc[p].pc = "idle" /\ proc[p].calls = 1
    /\ ~proc[p].executed /\ proc[p].session = NoRow /\ proc[p].contact # NoRow
    /\ proc[p].response = [success |-> FALSE, status |-> 500, set |-> TRUE]
    /\ Len(sessions) = 1 /\ sessions[1].id = q

\* the stored status the spec gives for each raw status of the callbacks
CanonicalStatus(raw) ==
  CASE raw = <<"s", "e", "n", "t">> -> ST_Sent
    [] raw = <<"d", "e", "l", "i", "v", "e", "r", "e", "d">> -> ST_Delivered
    [] raw = <<" ", "R", "E", "A", "D">> -> ST_Read
    [] raw = <<"f", "a", "i", "l", "e", "d">> -> ST_Failed
    [] raw = <<"h", "e", "l", "d">> -> <<"H", "e", "l", "d">>
    [] OTHER -> Null

\* C40: callbacks processed one after another: a callback that carries a
\* status stores its canonical mapping for the recipient whatever the
\* status before (a later delivered overwrites Read), and a callback
\* without a status leaves the recipient's status and the aggregates as
\* they are; so the stored status is always that of the last callback that
\* carried one.
C40_LastStatusWins ==
  [][
    /\ recipients' # recipients =>
         (\E o \in ReqIds : req[o].pc = "update" /\ req'[o].pc = "adjust")
    /\ \A q \in ReqIds :
         /\ (req[q].pc = "update" /\ req'[q].pc = "adjust") =>
              /\ recipients'[req[q].rid] =
                   IF req[q].raw # Null THEN CanonicalStatus(req[q].raw)
                   ELSE recipients[req[q].rid]
              /\ \A r \in RecipientIds \ {req[q].rid} :
                   recipients'[r] = recipients[r]
         /\ (req[q].pc = "adjust" /\ req'[q].pc = "next") =>
              /\ recipients' = recipients
              /\ req[q].raw = Null => broadcast' = broadcast
  ]_vars

\* r1 was Read and a later delivered callback has been stored over it
C40_Witness ==
  \E q \in ReqIds :
    /\ req[q].pc = "adjust"
    /\ req[q].prev = ST_Read
    /\ req[q].raw = <<"d", "e", "l", "i", "v", "e", "r", "e", "d">>
    /\ recipients[req[q].rid] = ST_Delivered

====
